---- MODULE Spec2Model ----
(***************************************************************************)
(* Technology Document Generator on the PocketFlow engine.                 *)
(*                                                                         *)
(* The pipeline Prepare -> (Outline || Research) -> Merge -> Write is      *)
(* modelled under its three drivers:                                       *)
(*   "invoke"  TechnologyDocumentGenerator.invoke (utils/tech_doc_generator)*)
(*   "runpf"   run_parallel_flow (parallel_flow.py)                        *)
(*   "flow"    the AsyncFlow built by create_parallel_tech_document_flow,  *)
(*             whose Outline and Research sub-flows are left to the caller *)
(*             "for manual execution" and run beside the main flow.        *)
(* The Node engine itself (pocketflow.Node, AsyncParallelBatchNode, Flow)  *)
(* is not part of the sources at hand and follows the written design.      *)
(***************************************************************************)
EXTENDS Integers, Sequences, FiniteSets, TLC

VARIABLES
    mode,            \* which driver runs the pipeline
    technologies,    \* the argument handed to the driver
    timeout_seconds, \* GeneratorConfig.timeout_seconds of the generator
    shared,          \* the shared store of the run
    pc,              \* position of the main driver
    label,           \* serial flow: the transition label its driver got last
    nst,             \* per node: phase of its run
    cur_retry,       \* per node: index of the current attempt
    execCalls,       \* per node: number of compute invocations so far
    sleeps,          \* per node: number of inter-attempt sleeps so far
    postCalls,       \* per node: number of output-write invocations so far
    prep_res,        \* per node: result of input-read (optional)
    exec_res,        \* per node: result of compute (optional)
    nodeErr,         \* per node: terminal error of its run (optional)
    otask,           \* the Outline branch task
    rtask,           \* the Research branch task
    items,           \* per technology: state of its research call
    done_order,      \* technologies in the order their research calls finished
    wait_time,       \* Merge poll: elapsed time, in check intervals
    outline_ready,   \* Merge poll: local of the last readiness check
    research_ready,  \* Merge poll: local of the last readiness check
    missing,         \* Merge poll: list built after the deadline
    result,          \* what the driver returned (optional)
    error,           \* what the driver raised (optional)
    agent_nodes,     \* the agent's generator: its node cache (_nodes)
    heap,            \* the stores made by the calls of the agent's generator
    calls            \* per call of invoke on the agent's generator: its locals

vars == <<mode, technologies, timeout_seconds, shared, pc, label, nst,
          cur_retry, execCalls, sleeps, postCalls, prep_res, exec_res, nodeErr,
          otask, rtask, items, done_order, wait_time, outline_ready, research_ready,
          missing, result, error, agent_nodes, heap, calls>>

----------------------------------------------------------------------------
\* Bounds of the model

\* longest technology list handed to invoke
MaxTechs == 2

\* longest technology list of the runs checked for termination
MaxFairTechs == 1

----------------------------------------------------------------------------
\* Values

\* Python None and a present value
NoneV == <<>>
Some(v) == <<v>>
IsNone(x) == Len(x) = 0
Get(x) == x[1]

Nodes == {"prepare", "outline", "research", "merge", "write"}

\* An element of the list that is no string (as 123): the one-element
\* sequence holding a tag that is no character.
NotAString == <<"int">>

\* isinstance(tech, str)
IsString(x) == x # NotAString

\* A technology name is a string: a sequence of characters.
RawNames == { <<>>, <<" ">>, <<"r">>, <<" ", "r">>, <<"R">>, <<"d">>, NotAString }

RECURSIVE lstrip(_)
lstrip(s) == IF Len(s) > 0 /\ Head(s) = " " THEN lstrip(Tail(s)) ELSE s

RECURSIVE rstrip(_)
rstrip(s) == IF Len(s) > 0 /\ s[Len(s)] = " "
             THEN rstrip(SubSeq(s, 1, Len(s) - 1)) ELSE s

\* str.strip()
strip(s) == rstrip(lstrip(s))

\* [tech.strip() for tech in technologies]
StripAll(ts) == [i \in 1..Len(ts) |-> strip(ts[i])]

\* set(list)
ToSet(ts) == {ts[i] : i \in 1..Len(ts)}

SeqsUpTo(S, n) == UNION {[1..k -> S] : k \in 0..n}

\* A caller-made store that holds no key "technologies": the value standing
\* for the absent key (reading it raises KeyError).
NoKey == << <<"absent">> >>

\* Lists handed to invoke by its callers.
InvokeInputs == SeqsUpTo(RawNames, MaxTechs)

\* Stores handed to run_parallel_flow and to the flow of
\* create_parallel_tech_document_flow carry a caller-made technology list.
CallerInputs == { <<>>, << <<"r">> >>, << <<"r">>, <<"d">> >>,
                  << <<"d">>, <<"d">> >>, NoKey }

----------------------------------------------------------------------------
\* Configuration

\* GeneratorConfig.__post_init__: default max_retries
DefaultMaxRetries == [prepare |-> 1, outline |-> 2, research |-> 2,
                      merge |-> 1, write |-> 3]

\* GeneratorConfig.__post_init__: default wait_times
DefaultWaitTimes == [prepare |-> 1, outline |-> 1, research |-> 2,
                     merge |-> 1, write |-> 1]

\* Node.__init__ defaults (max_retries=1, wait=0)
NodeDefaultRetries == 1
NodeDefaultWait == 0

\* TechnologyDocumentGenerator._get_node: retries of the node of a type
GetNodeRetries_NoConfig(node_type) == NodeDefaultRetries
GetNodeRetries(node_type) == DefaultMaxRetries[node_type]

\* TechnologyDocumentGenerator._get_node: wait of the node of a type
GetNodeWait(node_type) == DefaultWaitTimes[node_type]

\* run_parallel_flow: the nodes it constructs
RunpfRetries == [prepare |-> NodeDefaultRetries, outline |-> 2, research |-> 2,
                 merge |-> NodeDefaultRetries, write |-> 3]
RunpfWait == [prepare |-> NodeDefaultWait, outline |-> 1, research |-> 2,
              merge |-> NodeDefaultWait, write |-> 1]

\* create_parallel_tech_document_flow: the nodes it constructs
FlowRetries_PrepareOnce == [prepare |-> 1, outline |-> 2, research |-> 2,
                            merge |-> 1, write |-> 3]
FlowRetries == [prepare |-> 2, outline |-> 2, research |-> 2,
                merge |-> 1, write |-> 3]
FlowWait == [prepare |-> 1, outline |-> 1, research |-> 2,
             merge |-> 1, write |-> 1]

\* GeneratorConfig.timeout_seconds: the default
DefaultTimeoutSeconds == 120

\* GeneratorConfig(timeout_seconds = ...): the default and the value of
\* advanced_example
ConfiguredTimeouts == {DefaultTimeoutSeconds, 180}

\* create_serial_tech_document_flow: the nodes it constructs
SerialRetries == [prepare |-> 2, outline |-> 2, research |-> 2, write |-> 2]
SerialWait == [prepare |-> 1, outline |-> 1, research |-> 2, write |-> 1]

\* max_retries of node n under the running driver
max_retries(n) == CASE mode = "invoke" -> GetNodeRetries(n)
                    [] mode = "runpf"  -> RunpfRetries[n]
                    [] mode = "serial" -> SerialRetries[n]
                    [] OTHER           -> FlowRetries[n]

\* wait of node n under the running driver
wait(n) == CASE mode = "invoke" -> GetNodeWait(n)
             [] mode = "runpf"  -> RunpfWait[n]
             [] mode = "serial" -> SerialWait[n]
             [] OTHER           -> FlowWait[n]

----------------------------------------------------------------------------
\* The shared store

\* TechnologyDocumentGenerator._create_shared_store
CreateSharedStore_Untrimmed(ts) ==
    [technologies      |-> ts,
     outline           |-> NoneV,
     research_results  |-> NoneV,
     final_document    |-> NoneV,
     outline_complete  |-> FALSE,
     research_complete |-> FALSE]
CreateSharedStore(ts) ==
    [technologies      |-> StripAll(ts),
     outline           |-> NoneV,
     research_results  |-> NoneV,
     final_document    |-> NoneV,
     outline_complete  |-> FALSE,
     research_complete |-> FALSE]

\* The store a caller of run_parallel_flow / the flow builds: same schema,
\* the technology list as the caller wrote it.
CallerStore(ts) == [CreateSharedStore(<<>>) EXCEPT !.technologies = ts]

\* str.lower() of a character
LowerChar(c) == CASE c = "R" -> "r" [] c = "D" -> "d" [] OTHER -> c

\* tech.lower()
Lower(name) == [i \in 1..Len(name) |-> LowerChar(name[i])]

\* validators.validate_technologies: TRUE when it raises
\* InvalidTechnologyError
ValidateTechnologiesRaises(ts) ==
    \/ Len(ts) = 0
    \/ \E i \in 1..Len(ts) : ~IsString(ts[i]) \/ Len(strip(ts[i])) = 0

\* validators.validate_technologies: the loop that removes duplicates while
\* preserving order
RECURSIVE UniqueTechnologies(_, _)
UniqueTechnologies(cleaned, seen) ==
    IF cleaned = <<>> THEN <<>>
    ELSE IF Lower(Head(cleaned)) \in seen
         THEN UniqueTechnologies(Tail(cleaned), seen)
         ELSE <<Head(cleaned)>> \o
              UniqueTechnologies(Tail(cleaned), seen \cup {Lower(Head(cleaned))})

\* validators.validate_technologies: what it returns. It is imported by the
\* packaged nodes module and called by nothing.
ValidateTechnologies(ts) == UniqueTechnologies(StripAll(ts), {})

\* TechnologyDocumentGenerator._validate_inputs: TRUE when it raises
ValidateInputsRaises_NoDuplicateCheck(ts) ==
    \/ Len(ts) = 0
    \/ \E i \in 1..Len(ts) : ~IsString(ts[i]) \/ Len(strip(ts[i])) = 0
ValidateInputsRaises(ts) ==
    \/ Len(ts) = 0
    \/ \E i \in 1..Len(ts) : ~IsString(ts[i]) \/ Len(strip(ts[i])) = 0
    \/ Cardinality(ToSet(StripAll(ts))) # Len(ts)

NoError == NoneV
Err(type, phase) == Some([type |-> type, phase |-> phase])

----------------------------------------------------------------------------
\* Initial state

InitNodes ==
    /\ nst = [n \in Nodes |-> "idle"]
    /\ cur_retry = [n \in Nodes |-> 0]
    /\ execCalls = [n \in Nodes |-> 0]
    /\ sleeps = [n \in Nodes |-> 0]
    /\ postCalls = [n \in Nodes |-> 0]
    /\ prep_res = [n \in Nodes |-> NoneV]
    /\ exec_res = [n \in Nodes |-> NoneV]
    /\ nodeErr = [n \in Nodes |-> NoneV]
    /\ otask = "none"
    /\ rtask = "none"
    /\ items = <<>>
    /\ done_order = <<>>
    /\ wait_time = 0
    /\ outline_ready = FALSE
    /\ research_ready = FALSE
    /\ missing = <<>>
    /\ result = NoneV
    /\ error = NoError
    /\ label = ""

\* no request has reached the agent executor
NoAgent == agent_nodes = <<>> /\ heap = <<>> /\ calls = <<>>

Init ==
    /\ NoAgent
    /\ mode \in {"invoke", "runpf", "flow"}
    /\ \/ mode = "invoke" /\ technologies \in InvokeInputs
                          /\ timeout_seconds \in ConfiguredTimeouts
                          /\ shared = CreateSharedStore(<<>>)
                          /\ pc = "validate_inputs"
       \/ mode # "invoke" /\ technologies \in CallerInputs
                          /\ timeout_seconds = DefaultTimeoutSeconds
                          /\ shared = CallerStore(technologies)
                          /\ pc = "prepare"
    /\ InitNodes

----------------------------------------------------------------------------
\* The Node engine: run = input-read, compute, output-write, with retries.
\* (pocketflow.Node; modelled from the design: an attempt that raises is
\* retried after a sleep of `wait` until max_retries attempts were made, then
\* the failure is wrapped with the node's name.)

cfgVars == <<mode, technologies, timeout_seconds>>
cntVars == <<cur_retry, execCalls, sleeps, postCalls>>
taskVars == <<otask, rtask>>
itemVars == <<items, done_order>>
pollVars == <<wait_time, outline_ready, research_ready, missing>>
outVars == <<result, error>>
agentVars == <<agent_nodes, heap, calls>>

StepError(n, cause) ==
    Some([type |-> "StepExecutionError", node |-> n, cause |-> cause])

\* An attempt of node n raised `cause` in phase ph ("prep" or "exec").
FailAttempt(n, ph, cause) ==
    IF cur_retry[n] + 1 < max_retries(n)
    THEN /\ nst' = [nst EXCEPT ![n] = IF ph = "prep" THEN "sleep_prep"
                                                    ELSE "sleep_exec"]
         /\ nodeErr' = nodeErr
    ELSE /\ nst' = [nst EXCEPT ![n] = "failed"]
         /\ nodeErr' = [nodeErr EXCEPT ![n] = StepError(n, cause)]

\* Which process may run node n now: Prepare, Merge and Write run inside the
\* driver; Outline and Research run inside their branch tasks.
CanRun_UntilRunFailed(n) ==
    CASE n = "outline"  -> otask = "running" /\ pc # "raised"
      [] n = "research" -> rtask = "running" /\ pc # "raised"
      [] OTHER          -> pc = n
CanRun(n) ==
    CASE n = "outline"  -> otask = "running"
      [] n = "research" -> rtask = "running"
      [] OTHER          -> pc = n

\* time.sleep(wait) between two attempts, then the next attempt begins
NodeSleep(n) ==
    /\ CanRun(n)
    /\ nst[n] \in {"sleep_prep", "sleep_exec"}
    /\ nst' = [nst EXCEPT ![n] = IF nst[n] = "sleep_prep" THEN "prep" ELSE "exec"]
    /\ cur_retry' = [cur_retry EXCEPT ![n] = @ + 1]
    /\ sleeps' = [sleeps EXCEPT ![n] = @ + 1]
    /\ UNCHANGED <<cfgVars, agentVars, label, shared, pc, execCalls, postCalls, prep_res, exec_res,
                   nodeErr,
                   taskVars, itemVars, pollVars, outVars>>

----------------------------------------------------------------------------
\* PrepareDataNode

\* PrepareDataNode.exec: TRUE when it raises ValueError
PrepareExecRaises(ts) == Len(ts) = 0

\* PrepareDataNode.exec: what it returns ("return technologies")
PrepareExecResult_Reversed(ts) == [i \in 1..Len(ts) |-> ts[Len(ts) + 1 - i]]
PrepareExecResult(ts) == ts

\* The PrepareDataNode.exec of the packaged nodes module: TRUE when it
\* raises ValueError
PackagedPrepareExecRaises(ts) ==
    \/ Len(ts) = 0
    \/ \E i \in 1..Len(ts) : ~IsString(ts[i]) \/ Len(strip(ts[i])) = 0

\* ... and what it returns (cleaned_technologies)
PackagedPrepareExecResult(ts) == StripAll(ts)

\* PrepareDataNode.prep: TRUE when shared["technologies"] raises KeyError
PreparePrepRaises(sh) == sh.technologies = NoKey

PreparePrep ==
    /\ CanRun("prepare") /\ nst["prepare"] = "prep"
    /\ IF PreparePrepRaises(shared)
       THEN /\ FailAttempt("prepare", "prep", "KeyError")
            /\ UNCHANGED prep_res
       ELSE /\ prep_res' = [prep_res EXCEPT !["prepare"] = Some(shared.technologies)]
            /\ nst' = [nst EXCEPT !["prepare"] = "exec"]
            /\ UNCHANGED nodeErr
    /\ UNCHANGED <<cfgVars, agentVars, label, shared, pc, cntVars, exec_res, taskVars,
                   itemVars, pollVars, outVars>>

\* the PrepareDataNode.exec of the running driver: the serial flow is built
\* from the packaged nodes module
PrepareRaises(ts) == IF mode = "serial" THEN PackagedPrepareExecRaises(ts)
                                        ELSE PrepareExecRaises(ts)
PrepareResult(ts) == IF mode = "serial" THEN PackagedPrepareExecResult(ts)
                                        ELSE PrepareExecResult(ts)

PrepareExec ==
    /\ CanRun("prepare") /\ nst["prepare"] = "exec"
    /\ execCalls' = [execCalls EXCEPT !["prepare"] = @ + 1]
    /\ IF PrepareRaises(Get(prep_res["prepare"]))
       THEN /\ FailAttempt("prepare", "exec", "ValueError")
            /\ UNCHANGED exec_res
       ELSE /\ exec_res' = [exec_res EXCEPT !["prepare"] =
                               Some(PrepareResult(Get(prep_res["prepare"])))]
            /\ nst' = [nst EXCEPT !["prepare"] = "post"]
            /\ UNCHANGED nodeErr
    /\ UNCHANGED <<cfgVars, agentVars, label, shared, pc, cur_retry, sleeps, postCalls,
                   prep_res, taskVars,
                   itemVars, pollVars, outVars>>

\* PrepareDataNode.post
PreparePostStore(sh, res) == [sh EXCEPT !.technologies = res]

PreparePost ==
    /\ CanRun("prepare") /\ nst["prepare"] = "post"
    /\ shared' = PreparePostStore(shared, Get(exec_res["prepare"]))
    /\ postCalls' = [postCalls EXCEPT !["prepare"] = @ + 1]
    /\ nst' = [nst EXCEPT !["prepare"] = "done"]
    /\ UNCHANGED <<cfgVars, agentVars, label, pc, cur_retry, execCalls, sleeps, prep_res, exec_res, nodeErr, taskVars,
                   itemVars, pollVars, outVars>>

----------------------------------------------------------------------------
\* CreateOutlineNode

\* What the text-generation call can do for the outline prompt: raise, or
\* reply with text whose YAML is no mapping, or with a mapping that has or
\* lacks a title and whose "sections" is absent, no list, an empty list or a
\* list of sections.
OutlineDicts == [title : BOOLEAN, sections : {"absent", "notlist", "empty", "list"}]
OutlineReplies == {[kind |-> "raise"], [kind |-> "notdict"]}
                    \cup {[kind |-> "dict", outline |-> d] : d \in OutlineDicts}

\* CreateOutlineNode.exec: TRUE when it raises (call_llm raised, or the
\* parse / assertions failed and ValueError is raised)
OutlineExecRaises(reply) ==
    \/ reply.kind \in {"raise", "notdict"}
    \/ ~reply.outline.title
    \/ reply.outline.sections \notin {"empty", "list"}

OutlinePrep ==
    /\ CanRun("outline") /\ nst["outline"] = "prep"
    /\ prep_res' = [prep_res EXCEPT !["outline"] = Some(shared.technologies)]
    /\ nst' = [nst EXCEPT !["outline"] = "exec"]
    /\ UNCHANGED <<cfgVars, agentVars, label, shared, pc, cntVars, exec_res, nodeErr, taskVars,
                   itemVars, pollVars, outVars>>

OutlineExec ==
    /\ CanRun("outline") /\ nst["outline"] = "exec"
    /\ execCalls' = [execCalls EXCEPT !["outline"] = @ + 1]
    /\ \E reply \in OutlineReplies :
         IF OutlineExecRaises(reply)
         THEN /\ FailAttempt("outline", "exec",
                             IF reply.kind = "raise" THEN "LLMError" ELSE "ValueError")
              /\ UNCHANGED exec_res
         ELSE /\ exec_res' = [exec_res EXCEPT !["outline"] = Some(reply.outline)]
              /\ nst' = [nst EXCEPT !["outline"] = "post"]
              /\ UNCHANGED nodeErr
    /\ UNCHANGED <<cfgVars, agentVars, label, shared, pc, cur_retry, sleeps, postCalls,
                   prep_res, taskVars,
                   itemVars, pollVars, outVars>>

\* CreateOutlineNode.post, first statement: shared["outline"] = exec_res
OutlinePostStore_WrongKey(sh, res) == [sh EXCEPT !.research_results = Some(res)]
OutlinePostStore(sh, res) == [sh EXCEPT !.outline = Some(res)]

\* CreateOutlineNode.post, second statement: shared["outline_complete"] = True
OutlinePostFlag_Never(sh) == sh
OutlinePostFlag(sh) == [sh EXCEPT !.outline_complete = TRUE]

OutlinePost ==
    /\ CanRun("outline") /\ nst["outline"] = "post"
    /\ shared' = OutlinePostStore(shared, Get(exec_res["outline"]))
    /\ postCalls' = [postCalls EXCEPT !["outline"] = @ + 1]
    /\ nst' = [nst EXCEPT !["outline"] = "post_flag"]
    /\ UNCHANGED <<cfgVars, agentVars, label, pc, cur_retry, execCalls, sleeps, prep_res, exec_res, nodeErr, taskVars,
                   itemVars, pollVars, outVars>>

OutlinePostDone ==
    /\ CanRun("outline") /\ nst["outline"] = "post_flag"
    /\ shared' = OutlinePostFlag(shared)
    /\ nst' = [nst EXCEPT !["outline"] = "done"]
    /\ UNCHANGED <<cfgVars, agentVars, label, pc, cntVars, prep_res, exec_res, nodeErr, taskVars,
                   itemVars, pollVars, outVars>>

----------------------------------------------------------------------------
\* ResearchTechnologiesNode (AsyncParallelBatchNode)

\* What search_technology_info returns for a name: text made from the name
\* and from what its searches gave. search_web catches every exception and
\* returns the text "Search error ...", so the call never raises.
SearchKinds == {"found", "error"}
SearchTechnologyInfo(name, kind) == [about |-> name, kind |-> kind]

\* ResearchTechnologiesNode.exec_async
ExecAsync(technology, kind) ==
    [technology |-> technology, research |-> SearchTechnologyInfo(technology, kind)]

\* prep_async, then the engine launches exec_async for every item
ResearchPrep ==
    /\ CanRun("research") /\ nst["research"] = "prep"
    /\ prep_res' = [prep_res EXCEPT !["research"] = Some(shared.technologies)]
    /\ items' = [i \in 1..Len(shared.technologies) |->
                   [technology |-> shared.technologies[i], st |-> "running",
                    res |-> NoneV]]
    /\ nst' = [nst EXCEPT !["research"] = "exec"]
    /\ UNCHANGED <<cfgVars, agentVars, label, shared, pc, cntVars, exec_res, nodeErr, taskVars,
                   done_order, pollVars, outVars>>

\* the executor thread of item i finishes and exec_async returns
ItemDone(i) ==
    /\ CanRun("research") /\ nst["research"] = "exec"
    /\ i \in 1..Len(items) /\ items[i].st = "running"
    /\ \E kind \in SearchKinds :
         items' = [items EXCEPT ![i] =
                     [@ EXCEPT !.st = "done",
                               !.res = Some(ExecAsync(items[i].technology, kind))]]
    /\ done_order' = Append(done_order, i)
    /\ execCalls' = [execCalls EXCEPT !["research"] = @ + 1]
    /\ UNCHANGED <<cfgVars, agentVars, label, shared, pc, nst, cur_retry, sleeps, postCalls,
                   prep_res,
                   exec_res, nodeErr, taskVars, pollVars, outVars>>

\* The per-item results as the engine hands them to post_async. The design
\* promises the association to the items, not a position: the results come
\* in the order in which the calls finished.
ExecResList == [k \in 1..Len(done_order) |-> Get(items[done_order[k]].res)]

\* ResearchTechnologiesNode.post_async: the mapping built by its loop
PostAsyncResults_ByPosition(prep, exec_res_list) ==
    [name \in ToSet(prep) |->
        exec_res_list[CHOOSE i \in 1..Len(prep) :
            prep[i] = name /\ \A j \in (i+1)..Len(prep) : prep[j] # name].research]
PostAsyncResults_SkipsFirst(prep, exec_res_list) ==
    [name \in {exec_res_list[i].technology : i \in 2..Len(exec_res_list)} |->
        exec_res_list[CHOOSE i \in 2..Len(exec_res_list) :
            exec_res_list[i].technology = name].research]
PostAsyncResults(prep, exec_res_list) ==
    [name \in {exec_res_list[i].technology : i \in 1..Len(exec_res_list)} |->
        exec_res_list[CHOOSE i \in 1..Len(exec_res_list) :
            /\ exec_res_list[i].technology = name
            /\ \A j \in (i+1)..Len(exec_res_list) :
                  exec_res_list[j].technology # name].research]

\* post_async: shared["research_results"] = research_results
ResearchPostStore(sh, results) == [sh EXCEPT !.research_results = Some(results)]

\* post_async: shared["research_complete"] = True
ResearchPostFlag_Never(sh) == sh
ResearchPostFlag(sh) == [sh EXCEPT !.research_complete = TRUE]

\* every call has finished: the engine calls post_async
ResearchPost ==
    /\ CanRun("research") /\ nst["research"] = "exec"
    /\ \A i \in 1..Len(items) : items[i].st = "done"
    /\ exec_res' = [exec_res EXCEPT !["research"] = Some(ExecResList)]
    /\ shared' = ResearchPostStore(shared,
                    PostAsyncResults(Get(prep_res["research"]), ExecResList))
    /\ postCalls' = [postCalls EXCEPT !["research"] = @ + 1]
    /\ nst' = [nst EXCEPT !["research"] = "post_flag"]
    /\ UNCHANGED <<cfgVars, agentVars, label, pc, cur_retry, execCalls, sleeps, prep_res, nodeErr, taskVars, itemVars,
                   pollVars, outVars>>

ResearchPostDone ==
    /\ CanRun("research") /\ nst["research"] = "post_flag"
    /\ shared' = ResearchPostFlag(shared)
    /\ nst' = [nst EXCEPT !["research"] = "done"]
    /\ UNCHANGED <<cfgVars, agentVars, label, pc, cntVars, prep_res, exec_res, nodeErr, taskVars,
                   itemVars, pollVars, outVars>>

----------------------------------------------------------------------------
\* MergeResultsNode

\* max_wait = 120 (seconds)
max_wait == 120
\* check_interval = 0.5 (seconds): readiness checks per second
ChecksPerSecond == 2

\* bool(x) of an optional mapping: None and the empty mapping are falsy
Truthy(x) == ~IsNone(x) /\ DOMAIN Get(x) # {}

\* MergeResultsNode.prep: the test "outline_ready and research_ready"
MergeReady_Either(o_ready, r_ready) == o_ready \/ r_ready
MergeReady(o_ready, r_ready) == o_ready /\ r_ready

\* MergeResultsNode.prep: what it returns when ready
MergeData(sh) == [outline |-> sh.outline, research |-> sh.research_results,
                  technologies |-> sh.technologies]

\* MergeResultsNode.prep: the loop test "while wait_time < max_wait", with
\* the elapsed time counted in check intervals
MergePollContinues_OneMore(w) == w <= max_wait * ChecksPerSecond
MergePollContinues(w) == w < max_wait * ChecksPerSecond

\* prep begins: wait_time = 0
MergePrepBegin ==
    /\ CanRun("merge") /\ nst["merge"] = "prep"
    /\ wait_time' = 0
    /\ nst' = [nst EXCEPT !["merge"] = "poll"]
    /\ UNCHANGED <<cfgVars, agentVars, label, shared, pc, cntVars, prep_res, exec_res, nodeErr,
                   taskVars, itemVars, outline_ready, research_ready, missing,
                   outVars>>

\* one turn of "while wait_time < max_wait": check, return or sleep
MergePoll ==
    /\ CanRun("merge") /\ nst["merge"] = "poll"
    /\ MergePollContinues(wait_time)
    /\ outline_ready' = ~IsNone(shared.outline)
    /\ research_ready' = ~IsNone(shared.research_results)
    /\ IF MergeReady(outline_ready', research_ready')
       THEN /\ prep_res' = [prep_res EXCEPT !["merge"] = Some(MergeData(shared))]
            /\ nst' = [nst EXCEPT !["merge"] = "exec"]
            /\ UNCHANGED wait_time
       ELSE /\ wait_time' = wait_time + 1
            /\ UNCHANGED <<prep_res, nst>>
    /\ UNCHANGED <<cfgVars, agentVars, label, shared, pc, cntVars, exec_res, nodeErr, taskVars,
                   itemVars, missing, outVars>>

\* after the loop: if not shared.get("outline"): missing.append("outline")
MissingOutline(sh) == IF ~Truthy(sh.outline) THEN <<"outline">> ELSE <<>>

\* after the loop: if not shared.get("research_results"): missing.append(...)
MissingResearch_ReadsOutline(sh) ==
    IF ~Truthy(sh.outline) THEN <<"research results">> ELSE <<>>
MissingResearch(sh) ==
    IF ~Truthy(sh.research_results) THEN <<"research results">> ELSE <<>>

MergeTimeoutOutline ==
    /\ CanRun("merge") /\ nst["merge"] = "poll"
    /\ ~MergePollContinues(wait_time)
    /\ missing' = MissingOutline(shared)
    /\ nst' = [nst EXCEPT !["merge"] = "timeout"]
    /\ UNCHANGED <<cfgVars, agentVars, label, shared, pc, cntVars, prep_res, exec_res, nodeErr,
                   taskVars, itemVars, wait_time, outline_ready, research_ready,
                   outVars>>

\* ... and raise TimeoutError("Timeout waiting for: " + ", ".join(missing))
MergeTimeoutRaise ==
    /\ CanRun("merge") /\ nst["merge"] = "timeout"
    /\ missing' = missing \o MissingResearch(shared)
    /\ FailAttempt("merge", "prep", "TimeoutError")
    /\ UNCHANGED <<cfgVars, agentVars, label, shared, pc, cntVars, prep_res, exec_res, taskVars,
                   itemVars, wait_time, outline_ready, research_ready, outVars>>

\* MergeResultsNode.exec: TRUE when it raises ValueError
MergeExecRaises_RequiresEveryTechnology(data) ==
    \/ IsNone(data.outline) \/ ~Get(data.outline).title
    \/ IsNone(data.research) \/ DOMAIN Get(data.research) = {}
    \/ \E i \in 1..Len(data.technologies) :
          data.technologies[i] \notin DOMAIN Get(data.research)
MergeExecRaises(data) ==
    \/ IsNone(data.outline) \/ ~Get(data.outline).title
    \/ IsNone(data.research) \/ DOMAIN Get(data.research) = {}

\* (the locals of prep are gone once compute runs)
MergeExec ==
    /\ CanRun("merge") /\ nst["merge"] = "exec"
    /\ execCalls' = [execCalls EXCEPT !["merge"] = @ + 1]
    /\ IF MergeExecRaises(Get(prep_res["merge"]))
       THEN /\ FailAttempt("merge", "exec", "ValueError")
            /\ UNCHANGED exec_res
       ELSE /\ exec_res' = [exec_res EXCEPT !["merge"] = prep_res["merge"]]
            /\ nst' = [nst EXCEPT !["merge"] = "post"]
            /\ UNCHANGED nodeErr
    /\ wait_time' = 0 /\ outline_ready' = FALSE /\ research_ready' = FALSE
    /\ UNCHANGED <<cfgVars, agentVars, label, shared, pc, cur_retry, sleeps, postCalls,
                   prep_res, taskVars,
                   itemVars, missing, outVars>>

\* MergeResultsNode.post: returns "default", writes nothing
MergePost_SetsFlags ==
    /\ CanRun("merge") /\ nst["merge"] = "post"
    /\ shared' = [shared EXCEPT !.outline_complete = TRUE,
                                !.research_complete = TRUE]
    /\ postCalls' = [postCalls EXCEPT !["merge"] = @ + 1]
    /\ nst' = [nst EXCEPT !["merge"] = "done"]
    /\ UNCHANGED <<cfgVars, agentVars, label, pc, cur_retry, execCalls, sleeps,
                   prep_res, exec_res, nodeErr,
                   taskVars, itemVars, pollVars, outVars>>
MergePost ==
    /\ CanRun("merge") /\ nst["merge"] = "post"
    /\ postCalls' = [postCalls EXCEPT !["merge"] = @ + 1]
    /\ nst' = [nst EXCEPT !["merge"] = "done"]
    /\ UNCHANGED <<cfgVars, agentVars, label, shared, pc, cur_retry, execCalls, sleeps, prep_res, exec_res, nodeErr,
                   taskVars, itemVars, pollVars, outVars>>

----------------------------------------------------------------------------
\* WriteDocumentNode

\* What the text-generation call can do for the document prompt: raise, or
\* return a text, told here by the length of its stripped form, the amount
\* of surrounding whitespace and whether a line starts with '#'.
Documents == { [len |-> 0,   pad |-> 0, heading |-> FALSE],
               [len |-> 0,   pad |-> 2, heading |-> FALSE],
               [len |-> 99,  pad |-> 2, heading |-> TRUE],
               [len |-> 100, pad |-> 0, heading |-> TRUE],
               [len |-> 150, pad |-> 0, heading |-> FALSE] }
WriteReplies == {[kind |-> "raise"]} \cup {[kind |-> "text", doc |-> d] : d \in Documents}

\* WriteDocumentNode.prep
WriteData_DropsOutline(sh) == [outline |-> NoneV, research |-> sh.research_results,
                  technologies |-> sh.technologies]
WriteData(sh) == [outline |-> sh.outline, research |-> sh.research_results,
                  technologies |-> sh.technologies]

WritePrep ==
    /\ CanRun("write") /\ nst["write"] = "prep"
    /\ prep_res' = [prep_res EXCEPT !["write"] = Some(WriteData(shared))]
    /\ nst' = [nst EXCEPT !["write"] = "exec"]
    /\ UNCHANGED <<cfgVars, agentVars, label, shared, pc, cntVars, exec_res, nodeErr, taskVars,
                   itemVars, pollVars, outVars>>

WriteExec_StoresDocument ==
    /\ CanRun("write") /\ nst["write"] = "exec"
    /\ execCalls' = [execCalls EXCEPT !["write"] = @ + 1]
    /\ \E reply \in WriteReplies :
         IF reply.kind = "raise"
         THEN /\ FailAttempt("write", "exec", "LLMError")
              /\ UNCHANGED <<exec_res, shared>>
         ELSE /\ exec_res' = [exec_res EXCEPT !["write"] = Some(reply.doc)]
              /\ shared' = [shared EXCEPT !.final_document = Some(reply.doc)]
              /\ nst' = [nst EXCEPT !["write"] = "post"]
              /\ UNCHANGED nodeErr
    /\ UNCHANGED <<cfgVars, agentVars, label, pc, cur_retry, sleeps, postCalls,
                   prep_res, taskVars,
                   itemVars, pollVars, outVars>>
WriteExec ==
    /\ CanRun("write") /\ nst["write"] = "exec"
    /\ execCalls' = [execCalls EXCEPT !["write"] = @ + 1]
    /\ \E reply \in WriteReplies :
         IF reply.kind = "raise"
         THEN /\ FailAttempt("write", "exec", "LLMError")
              /\ UNCHANGED exec_res
         ELSE /\ exec_res' = [exec_res EXCEPT !["write"] = Some(reply.doc)]
              /\ nst' = [nst EXCEPT !["write"] = "post"]
              /\ UNCHANGED nodeErr
    /\ UNCHANGED <<cfgVars, agentVars, label, shared, pc, cur_retry, sleeps, postCalls,
                   prep_res, taskVars,
                   itemVars, pollVars, outVars>>

\* WriteDocumentNode.post
WritePostStore_NoWrite(sh, res) == sh
WritePostStore_ClearsResearch(sh, res) ==
    [sh EXCEPT !.final_document = Some(res), !.research_results = NoneV]
WritePostStore(sh, res) == [sh EXCEPT !.final_document = Some(res)]

WritePost ==
    /\ CanRun("write") /\ nst["write"] = "post"
    /\ shared' = WritePostStore(shared, Get(exec_res["write"]))
    /\ postCalls' = [postCalls EXCEPT !["write"] = @ + 1]
    /\ nst' = [nst EXCEPT !["write"] = "done"]
    /\ UNCHANGED <<cfgVars, agentVars, label, pc, cur_retry, execCalls, sleeps, prep_res, exec_res, nodeErr, taskVars,
                   itemVars, pollVars, outVars>>

----------------------------------------------------------------------------
\* Drivers

\* TechnologyDocumentGenerator._execute_workflow: the phase after node n
WorkflowNext_SkipToWrite(n) ==
    CASE n = "prepare" -> "write" [] OTHER -> "validate_outputs"
WorkflowNext(n) ==
    CASE n = "prepare" -> "parallel" [] n = "merge" -> "write"
      [] OTHER -> "validate_outputs"

\* run_parallel_flow: the step after node n
RunpfNext(n) ==
    CASE n = "prepare" -> "parallel" [] n = "merge" -> "write"
      [] OTHER -> "returned"

\* create_parallel_tech_document_flow: prepare_node >> merge_node >> write_node
FlowSuccessor(n) ==
    CASE n = "prepare" -> "merge" [] n = "merge" -> "write"
      [] OTHER -> "returned"

\* the step of the running driver after node n returned
NextStep(n) == CASE mode = "invoke" -> WorkflowNext(n)
                 [] mode = "runpf"  -> RunpfNext(n)
                 [] OTHER           -> FlowSuccessor(n)

\* invoke, first statement: self._validate_inputs(technologies)
ValidateInputs ==
    /\ pc = "validate_inputs"
    /\ IF ValidateInputsRaises(technologies)
       THEN /\ pc' = "raised"
            /\ error' = Err("InputValidationError", "input")
       ELSE /\ pc' = "create_store"
            /\ UNCHANGED error
    /\ UNCHANGED <<cfgVars, agentVars, label, shared, nst, cntVars, prep_res, exec_res, nodeErr,
                   taskVars, itemVars, pollVars, result>>

\* invoke: shared = self._create_shared_store(technologies)
CreateStore ==
    /\ pc = "create_store"
    /\ shared' = CreateSharedStore(technologies)
    /\ pc' = "prepare"
    /\ UNCHANGED <<cfgVars, agentVars, label, nst, cntVars, prep_res, exec_res, nodeErr,
                   taskVars, itemVars, pollVars, outVars>>

\* the driver calls node.run(shared) for Prepare, Merge or Write
StartNode_Again(n) ==
    /\ n \in {"prepare", "merge", "write"}
    /\ pc = n /\ nst[n] \in {"idle", "failed"}
    /\ nst' = [nst EXCEPT ![n] = "prep"]
    /\ cur_retry' = [cur_retry EXCEPT ![n] = 0]
    /\ UNCHANGED <<cfgVars, agentVars, label, shared, pc, execCalls, sleeps,
                   postCalls, prep_res, exec_res, nodeErr,
                   taskVars, itemVars, pollVars, outVars>>
StartNode(n) ==
    /\ n \in {"prepare", "merge", "write"}
    /\ pc = n /\ nst[n] = "idle"
    /\ nst' = [nst EXCEPT ![n] = "prep"]
    /\ UNCHANGED <<cfgVars, agentVars, label, shared, pc, cntVars, prep_res, exec_res, nodeErr,
                   taskVars, itemVars, pollVars, outVars>>

\* _execute_prepare_node, _execute_merge_node, _execute_write_node: the
\* driver goes on only when node.run(shared) returned; an exception is
\* re-raised, never swallowed
RunReturned_Swallow(st) == st \in {"done", "failed"}
RunReturned(st) == st = "done"

\* node.run(shared) returned: the driver goes on
NodeReturned(n) ==
    /\ n \in {"prepare", "merge", "write"}
    /\ pc = n /\ RunReturned(nst[n])
    /\ pc' = NextStep(n)
    /\ result' = IF mode = "runpf" /\ pc' = "returned"
                 THEN shared.final_document ELSE result
    /\ UNCHANGED <<cfgVars, agentVars, label, shared, nst, cntVars, prep_res, exec_res, nodeErr,
                   taskVars, itemVars, pollVars, error>>

\* The error a failed node surfaces as: invoke's _execute_*_node wrap it in
\* FlowExecutionError; run_parallel_flow and the flow let it through.
DriverError_NoPhase(n) ==
    IF mode = "invoke" THEN Err("FlowExecutionError", "workflow")
                       ELSE Err("StepExecutionError", n)
DriverError(n) ==
    IF mode = "invoke" THEN Err("FlowExecutionError", n)
                       ELSE Err("StepExecutionError", n)

\* node.run(shared) raised: the run is over
NodeRaised(n) ==
    /\ n \in {"prepare", "merge", "write"}
    /\ pc = n /\ nst[n] = "failed" /\ ~RunReturned(nst[n])
    /\ pc' = "raised"
    /\ error' = DriverError(n)
    /\ UNCHANGED <<cfgVars, agentVars, label, shared, nst, cntVars, prep_res, exec_res, nodeErr,
                   taskVars, itemVars, pollVars, result>>

\* _execute_parallel_phase / run_parallel_flow: both tasks are created, then
\* the driver awaits asyncio.gather(outline_task, research_task)
ParallelLaunch ==
    /\ pc = "parallel"
    /\ otask' = "created" /\ rtask' = "created"
    /\ pc' = "gather"
    /\ UNCHANGED <<cfgVars, agentVars, label, shared, nst, cntVars, prep_res, exec_res, nodeErr,
                   itemVars, pollVars, outVars>>

\* The event loop runs the tasks in the order of their creation. run_outline
\* calls outline_node.run(shared) and never awaits: once started it keeps the
\* loop until the Outline node has returned or raised.
OutlineTaskStart ==
    /\ otask = "created"
    /\ otask' = "running"
    /\ nst' = [nst EXCEPT !["outline"] = "prep"]
    /\ UNCHANGED <<cfgVars, agentVars, label, shared, pc, cntVars, prep_res, exec_res, nodeErr,
                   rtask, itemVars, pollVars, outVars>>

\* run_outline returns the node's action, or raises (wrapped by invoke)
OutlineTaskEnd ==
    /\ otask = "running" /\ nst["outline"] \in {"done", "failed"}
    /\ otask' = IF nst["outline"] = "done" THEN "done" ELSE "failed"
    /\ UNCHANGED <<cfgVars, agentVars, label, shared, pc, nst, cntVars, prep_res, exec_res,
                   nodeErr, rtask, itemVars, pollVars, outVars>>

\* run_research gets the loop when run_outline has ended
ResearchTaskStart ==
    /\ rtask = "created"
    /\ otask \in {"done", "failed"}
    /\ rtask' = "running"
    /\ nst' = [nst EXCEPT !["research"] = "prep"]
    /\ UNCHANGED <<cfgVars, agentVars, label, shared, pc, cntVars, prep_res, exec_res, nodeErr,
                   otask, itemVars, pollVars, outVars>>

ResearchTaskEnd ==
    /\ rtask = "running" /\ nst["research"] \in {"done", "failed"}
    /\ rtask' = IF nst["research"] = "done" THEN "done" ELSE "failed"
    /\ UNCHANGED <<cfgVars, agentVars, label, shared, pc, nst, cntVars, prep_res, exec_res,
                   nodeErr, otask, itemVars, pollVars, outVars>>

\* asyncio.gather: returns when every task has returned
GatherReturns_IgnoreFailures(ot, rt) ==
    ot \in {"done", "failed"} /\ rt \in {"done", "failed"}
GatherReturns_FirstCompleted(ot, rt) == ot = "done"
GatherReturns(ot, rt) == ot = "done" /\ rt = "done"

\* asyncio.gather: raises the first exception of a task
GatherRaises(ot, rt) == ot = "failed" \/ rt = "failed"

GatherReturn ==
    /\ pc = "gather"
    /\ GatherReturns(otask, rtask)
    /\ pc' = "merge"
    /\ UNCHANGED <<cfgVars, agentVars, label, shared, nst, cntVars, prep_res, exec_res, nodeErr,
                   taskVars, itemVars, pollVars, outVars>>

\* The awaiting driver is woken after the tasks queued before the failure had
\* their turn: run_research has started by then and is not cancelled.
GatherRaise ==
    /\ pc = "gather"
    /\ ~GatherReturns(otask, rtask)
    /\ GatherRaises(otask, rtask)
    /\ rtask # "created"
    /\ pc' = "raised"
    /\ error' = DriverError(IF otask = "failed" THEN "outline" ELSE "research")
    /\ UNCHANGED <<cfgVars, agentVars, label, shared, nst, cntVars, prep_res, exec_res, nodeErr,
                   taskVars, itemVars, pollVars, result>>

\* TechnologyDocumentGenerator._validate_outputs: TRUE when it raises
ValidateOutputsRaises_Min200(sh) ==
    \/ IsNone(sh.final_document)
    \/ Get(sh.final_document).len + Get(sh.final_document).pad = 0
    \/ Get(sh.final_document).len < 200
ValidateOutputsRaises(sh) ==
    \/ IsNone(sh.final_document)
    \/ Get(sh.final_document).len + Get(sh.final_document).pad = 0
    \/ Get(sh.final_document).len < 100

ValidateOutputs ==
    /\ pc = "validate_outputs"
    /\ IF ValidateOutputsRaises(shared)
       THEN /\ pc' = "raised"
            /\ error' = Err("OutputValidationError", "output")
            /\ UNCHANGED result
       ELSE /\ pc' = "returned"
            /\ result' = shared.final_document
            /\ UNCHANGED error
    /\ UNCHANGED <<cfgVars, agentVars, label, shared, nst, cntVars, prep_res, exec_res, nodeErr,
                   taskVars, itemVars, pollVars>>

\* The flow of create_parallel_tech_document_flow keeps the Outline and the
\* Research sub-flow "for manual execution": the caller runs each of them,
\* or not, beside the main flow once the technologies are prepared.
CallerRunsOutlineFlow ==
    /\ mode = "flow" /\ otask = "none"
    /\ nst["prepare"] = "done"
    /\ otask' = "running"
    /\ nst' = [nst EXCEPT !["outline"] = "prep"]
    /\ UNCHANGED <<cfgVars, agentVars, label, shared, pc, cntVars, prep_res, exec_res, nodeErr,
                   rtask, itemVars, pollVars, outVars>>

CallerRunsResearchFlow ==
    /\ mode = "flow" /\ rtask = "none"
    /\ nst["prepare"] = "done"
    /\ rtask' = "running"
    /\ nst' = [nst EXCEPT !["research"] = "prep"]
    /\ UNCHANGED <<cfgVars, agentVars, label, shared, pc, cntVars, prep_res, exec_res, nodeErr,
                   otask, itemVars, pollVars, outVars>>

----------------------------------------------------------------------------

Next ==
    \/ ValidateInputs
    \/ CreateStore
    \/ \E n \in Nodes : StartNode(n)
    \/ \E n \in Nodes : NodeReturned(n)
    \/ \E n \in Nodes : NodeRaised(n)
    \/ \E n \in Nodes : NodeSleep(n)
    \/ PreparePrep
    \/ PrepareExec
    \/ PreparePost
    \/ ParallelLaunch
    \/ OutlineTaskStart
    \/ OutlineTaskEnd
    \/ ResearchTaskStart
    \/ ResearchTaskEnd
    \/ GatherReturn
    \/ GatherRaise
    \/ CallerRunsOutlineFlow
    \/ CallerRunsResearchFlow
    \/ OutlinePrep
    \/ OutlineExec
    \/ OutlinePost
    \/ OutlinePostDone
    \/ ResearchPrep
    \/ \E i \in 1..Len(items) : ItemDone(i)
    \/ ResearchPost
    \/ ResearchPostDone
    \/ MergePrepBegin
    \/ MergePoll
    \/ MergeTimeoutOutline
    \/ MergeTimeoutRaise
    \/ MergeExec
    \/ MergePost
    \/ WritePrep
    \/ WriteExec
    \/ WritePost
    \/ ValidateOutputs

Spec == Init /\ [][Next]_vars

\* MergeResultsNode.exec called on its own: the data it can be handed. The
\* outline is null or a parsed mapping, the research is null or a mapping
\* from some of the names to findings, the technologies are any short list.
MergeCallNames == {<<"r">>, <<"d">>}
MergeCallData ==
    [outline : {NoneV} \cup {Some(d) : d \in OutlineDicts},
     research : {NoneV} \cup
                {Some([name \in S |-> SearchTechnologyInfo(name, "found")]) :
                    S \in SUBSET MergeCallNames},
     technologies : SeqsUpTo(MergeCallNames, MaxTechs)]

\* merge_node.run(shared) of run_parallel_flow on a store that holds the
\* data, taken at the moment input-read has returned it
MergeCallInit ==
    /\ NoAgent
    /\ mode = "runpf"
    /\ timeout_seconds = DefaultTimeoutSeconds
    /\ \E data \in MergeCallData :
          /\ technologies = data.technologies
          /\ shared = [CallerStore(data.technologies) EXCEPT
                          !.outline = data.outline,
                          !.research_results = data.research]
          /\ prep_res = [n \in Nodes |-> IF n = "merge" THEN Some(data) ELSE NoneV]
    /\ pc = "merge"
    /\ nst = [n \in Nodes |-> IF n = "merge" THEN "exec" ELSE "idle"]
    /\ cur_retry = [n \in Nodes |-> 0]
    /\ execCalls = [n \in Nodes |-> 0]
    /\ sleeps = [n \in Nodes |-> 0]
    /\ postCalls = [n \in Nodes |-> 0]
    /\ exec_res = [n \in Nodes |-> NoneV]
    /\ nodeErr = [n \in Nodes |-> NoneV]
    /\ otask = "none" /\ rtask = "none"
    /\ items = <<>> /\ done_order = <<>>
    /\ wait_time = 0 /\ outline_ready = FALSE /\ research_ready = FALSE
    /\ missing = <<>>
    /\ result = NoneV /\ error = NoError
    /\ label = ""

MergeCallNext ==
    \/ MergeExec
    \/ MergePost
    \/ NodeReturned("merge")
    \/ NodeRaised("merge")

MergeCallSpec == MergeCallInit /\ [][MergeCallNext]_vars

----------------------------------------------------------------------------
\* The serial flow of create_serial_tech_document_flow:
\* Validate -"valid"-> Prepare -> Outline -> Research -> Write.
\* (ValidateRequestNode is named by the flow and defined nowhere in the
\* sources; it is taken as a node that returns some transition label.)

ValidateLabels == {"valid", "invalid", ""}

\* the edges of the serial flow: the node after node n for a label, or
\* "ended" when n has no edge for the label
SerialSuccessor_DefaultEdge(n, l) ==
    CASE n = "validate" -> "prepare"
      [] n = "prepare"  /\ l = "default" -> "outline"
      [] n = "outline"  /\ l = "default" -> "research"
      [] n = "research" /\ l = "default" -> "write"
      [] OTHER -> "ended"
SerialSuccessor(n, l) ==
    CASE n = "validate" /\ l = "valid"   -> "prepare"
      [] n = "prepare"  /\ l = "default" -> "outline"
      [] n = "outline"  /\ l = "default" -> "research"
      [] n = "research" /\ l = "default" -> "write"
      [] OTHER -> "ended"

\* flow.run_async(shared) on a caller-made store
SerialInit ==
    /\ NoAgent
    /\ mode = "serial"
    /\ technologies \in CallerInputs
    /\ timeout_seconds = DefaultTimeoutSeconds
    /\ shared = CallerStore(technologies)
    /\ pc = "validate"
    /\ InitNodes

\* the Validate node has run and returned a label
SerialValidate ==
    /\ pc = "validate"
    /\ \E l \in ValidateLabels :
          /\ label' = l
          /\ pc' = SerialSuccessor("validate", l)
    /\ UNCHANGED <<cfgVars, agentVars, shared, nst, cntVars, prep_res, exec_res, nodeErr,
                   taskVars, itemVars, pollVars, outVars>>

\* the flow driver runs the node it has arrived at
SerialStart(n) ==
    /\ pc = n /\ nst[n] = "idle"
    /\ nst' = [nst EXCEPT ![n] = "prep"]
    /\ otask' = IF n = "outline" THEN "running" ELSE otask
    /\ rtask' = IF n = "research" THEN "running" ELSE rtask
    /\ UNCHANGED <<cfgVars, agentVars, label, shared, pc, cntVars, prep_res, exec_res,
                   nodeErr, itemVars, pollVars, outVars>>

\* the node returned "default": the driver follows the edge, or ends
SerialReturned(n) ==
    /\ pc = n /\ nst[n] = "done"
    /\ label' = "default"
    /\ pc' = SerialSuccessor(n, "default")
    /\ otask' = IF n = "outline" THEN "done" ELSE otask
    /\ rtask' = IF n = "research" THEN "done" ELSE rtask
    /\ UNCHANGED <<cfgVars, agentVars, shared, nst, cntVars, prep_res, exec_res, nodeErr,
                   itemVars, pollVars, outVars>>

\* the node failed terminally: the run is aborted
SerialRaised(n) ==
    /\ pc = n /\ nst[n] = "failed"
    /\ pc' = "raised"
    /\ error' = DriverError(n)
    /\ otask' = IF n = "outline" THEN "failed" ELSE otask
    /\ rtask' = IF n = "research" THEN "failed" ELSE rtask
    /\ UNCHANGED <<cfgVars, agentVars, label, shared, nst, cntVars, prep_res, exec_res,
                   nodeErr, itemVars, pollVars, result>>

SerialNodes == {"prepare", "outline", "research", "write"}

SerialNext ==
    \/ SerialValidate
    \/ \E n \in SerialNodes : SerialStart(n)
    \/ \E n \in SerialNodes : SerialReturned(n)
    \/ \E n \in SerialNodes : SerialRaised(n)
    \/ \E n \in SerialNodes : NodeSleep(n)
    \/ PreparePrep
    \/ PrepareExec
    \/ PreparePost
    \/ OutlinePrep
    \/ OutlineExec
    \/ OutlinePost
    \/ OutlinePostDone
    \/ ResearchPrep
    \/ \E i \in 1..Len(items) : ItemDone(i)
    \/ ResearchPost
    \/ ResearchPostDone
    \/ WritePrep
    \/ WriteExec
    \/ WritePost

SerialSpec == SerialInit /\ [][SerialNext]_vars

----------------------------------------------------------------------------
\* The agent executor: one TechnologyDocumentGenerator, made in __init__,
\* serves every request; execute awaits self.agent.invoke(tech_list), so a
\* second call of invoke can begin while the first is suspended.
\* A node's run is one step here: a synchronous run keeps the event loop
\* (its retries and sleeps included), and the reply of its last attempt
\* decides its outcome.

Calls == {1, 2}

\* technology lists of the requests
AgentInputs == { << <<"r">> >>, << <<" ", "r">>, <<"R">> >>,
                 << <<"d">> >>, << <<"d">>, <<"d">> >> }

\* the places where a call leaves the event loop to others: before it
\* begins, while it awaits the research calls, after it ended
Suspended == {"new", "awaiting", "returned", "raised"}
LoopFree(c) == \A q \in Calls \ {c} : calls[q].pc \in Suspended

\* invoke: shared = self._create_shared_store(technologies) is a new dict
\* held by a local of the call
NewStoreRef_OnGenerator(c) == 1
NewStoreRef(c) == c

\* _get_node: the node of a type is made at its first use and kept
GetNode(cache, node_type) ==
    IF node_type \in DOMAIN cache THEN cache
    ELSE [t \in DOMAIN cache \cup {node_type} |->
            IF t = node_type
            THEN [max_retries |-> GetNodeRetries(t), wait |-> GetNodeWait(t)]
            ELSE cache[t]]

NewCall(ts) ==
    [pc |-> "new", technologies |-> ts, shared |-> 0, ofailed |-> FALSE,
     rtask |-> "none", items |-> <<>>, outline_for |-> NoneV,
     oreply |-> NoneV, research |-> NoneV, prompt |-> NoneV,
     wreply |-> NoneV, result |-> NoneV, error |-> NoError]

StoreOf(c) == heap[calls[c].shared]

AgentInit ==
    /\ mode = "agent"
    /\ technologies = <<>>
    /\ timeout_seconds = DefaultTimeoutSeconds
    /\ shared = CreateSharedStore(<<>>)
    /\ pc = "agent"
    /\ InitNodes
    /\ agent_nodes = <<>>
    /\ heap = [c \in Calls |-> NoneV]
    /\ calls \in [Calls -> {NewCall(ts) : ts \in AgentInputs}]

AgentFrame == UNCHANGED <<cfgVars, label, shared, pc, nst, cntVars, prep_res,
                          exec_res, nodeErr, taskVars, itemVars, pollVars,
                          outVars>>

\* invoke: _validate_inputs, then _create_shared_store
AgentInvoke(c) ==
    /\ calls[c].pc = "new" /\ LoopFree(c)
    /\ IF ValidateInputsRaises(calls[c].technologies)
       THEN /\ calls' = [calls EXCEPT ![c].pc = "raised",
                            ![c].error = Err("InputValidationError", "input")]
            /\ UNCHANGED heap
       ELSE /\ heap' = [heap EXCEPT ![NewStoreRef(c)] =
                            CreateSharedStore(calls[c].technologies)]
            /\ calls' = [calls EXCEPT ![c].pc = "prepare",
                                      ![c].shared = NewStoreRef(c)]
    /\ UNCHANGED agent_nodes
    /\ AgentFrame

\* _execute_prepare_node
AgentPrepare(c) ==
    /\ calls[c].pc = "prepare" /\ LoopFree(c)
    /\ agent_nodes' = GetNode(agent_nodes, "prepare")
    /\ IF PrepareExecRaises(StoreOf(c).technologies)
       THEN /\ calls' = [calls EXCEPT ![c].pc = "raised",
                            ![c].error = Err("FlowExecutionError", "prepare")]
            /\ UNCHANGED heap
       ELSE /\ heap' = [heap EXCEPT ![calls[c].shared] =
                            PreparePostStore(@, PrepareExecResult(@.technologies))]
            /\ calls' = [calls EXCEPT ![c].pc = "outline"]
    /\ AgentFrame

\* _execute_parallel_phase: the Outline task runs first and never awaits
AgentOutline(c) ==
    /\ calls[c].pc = "outline" /\ LoopFree(c)
    /\ agent_nodes' = GetNode(GetNode(agent_nodes, "outline"), "research")
    /\ \E reply \in OutlineReplies :
         IF OutlineExecRaises(reply)
         THEN /\ calls' = [calls EXCEPT ![c].pc = "research",
                              ![c].outline_for = Some(StoreOf(c).technologies),
                              ![c].ofailed = TRUE]
              /\ UNCHANGED heap
         ELSE /\ heap' = [heap EXCEPT ![calls[c].shared] =
                              OutlinePostFlag(OutlinePostStore(@, reply.outline))]
              /\ calls' = [calls EXCEPT ![c].pc = "research",
                              ![c].outline_for = Some(StoreOf(c).technologies),
                              ![c].oreply = Some(reply.outline)]
    /\ AgentFrame

\* the Research task: prep_async, the calls are handed to the executor and
\* the task awaits them
AgentResearchStart(c) ==
    /\ calls[c].pc = "research" /\ LoopFree(c)
    /\ calls' = [calls EXCEPT ![c].pc = "awaiting", ![c].rtask = "running",
                              ![c].items = StoreOf(c).technologies]
    /\ UNCHANGED <<agent_nodes, heap>>
    /\ AgentFrame

\* the Outline task failed: gather raises in the awaiting call while the
\* Research task goes on
AgentGatherRaise(c) ==
    /\ calls[c].pc = "awaiting" /\ calls[c].ofailed /\ LoopFree(c)
    /\ calls' = [calls EXCEPT ![c].pc = "raised",
                              ![c].error = Err("FlowExecutionError", "outline")]
    /\ UNCHANGED <<agent_nodes, heap>>
    /\ AgentFrame

\* every research call has returned: post_async, then gather returns
AgentResearchEnd(c) ==
    /\ calls[c].rtask = "running" /\ calls[c].pc \in {"awaiting", "raised"}
    /\ LoopFree(c)
    /\ \E kinds \in [1..Len(calls[c].items) -> SearchKinds] :
         LET res == [i \in 1..Len(calls[c].items) |->
                       ExecAsync(calls[c].items[i], kinds[i])]
             results == PostAsyncResults(calls[c].items, res)
         IN /\ heap' = [heap EXCEPT ![calls[c].shared] =
                           ResearchPostFlag(ResearchPostStore(@, results))]
            /\ calls' = [calls EXCEPT ![c].rtask = "done",
                            ![c].research = Some(results),
                            ![c].pc = IF @ = "awaiting" THEN "merge" ELSE @]
    /\ UNCHANGED agent_nodes
    /\ AgentFrame

\* _execute_merge_node: both keys are written, prep returns at its first
\* check
AgentMerge(c) ==
    /\ calls[c].pc = "merge" /\ LoopFree(c)
    /\ agent_nodes' = GetNode(agent_nodes, "merge")
    /\ IF \/ ~MergeReady(~IsNone(StoreOf(c).outline),
                          ~IsNone(StoreOf(c).research_results))
          \/ MergeExecRaises(MergeData(StoreOf(c)))
       THEN calls' = [calls EXCEPT ![c].pc = "raised",
                         ![c].error = Err("FlowExecutionError", "merge")]
       ELSE calls' = [calls EXCEPT ![c].pc = "write"]
    /\ UNCHANGED heap
    /\ AgentFrame

\* _execute_write_node
AgentWrite(c) ==
    /\ calls[c].pc = "write" /\ LoopFree(c)
    /\ agent_nodes' = GetNode(agent_nodes, "write")
    /\ \E reply \in WriteReplies :
         IF reply.kind = "raise"
         THEN /\ calls' = [calls EXCEPT ![c].pc = "raised",
                              ![c].prompt = Some(WriteData(StoreOf(c))),
                              ![c].error = Err("FlowExecutionError", "write")]
              /\ UNCHANGED heap
         ELSE /\ heap' = [heap EXCEPT ![calls[c].shared] =
                              WritePostStore(@, reply.doc)]
              /\ calls' = [calls EXCEPT ![c].pc = "validate_outputs",
                              ![c].prompt = Some(WriteData(StoreOf(c))),
                              ![c].wreply = Some(reply.doc)]
    /\ AgentFrame

\* invoke: document = self._validate_outputs(shared); return document
AgentReturn(c) ==
    /\ calls[c].pc = "validate_outputs" /\ LoopFree(c)
    /\ IF ValidateOutputsRaises(StoreOf(c))
       THEN calls' = [calls EXCEPT ![c].pc = "raised",
                         ![c].error = Err("OutputValidationError", "output")]
       ELSE calls' = [calls EXCEPT ![c].pc = "returned",
                         ![c].result = StoreOf(c).final_document]
    /\ UNCHANGED <<agent_nodes, heap>>
    /\ AgentFrame

AgentNext ==
    \E c \in Calls :
        \/ AgentInvoke(c)
        \/ AgentPrepare(c)
        \/ AgentOutline(c)
        \/ AgentResearchStart(c)
        \/ AgentGatherRaise(c)
        \/ AgentResearchEnd(c)
        \/ AgentMerge(c)
        \/ AgentWrite(c)
        \/ AgentReturn(c)

AgentSpec == AgentInit /\ [][AgentNext]_vars

\* Every way a run of MergeResultsNode can go: inside a driver, where it
\* returns or times out, and called on data that fails its validation.
MergeRunInit == Init \/ MergeCallInit
MergeRunSpec == MergeRunInit /\ [][Next]_vars

\* The thread that runs Merge is not starved: time.sleep returns and the
\* next check, or the timeout report, is executed.
MergeFairness ==
    /\ WF_vars(MergePoll)
    /\ WF_vars(MergeTimeoutOutline)
    /\ WF_vars(MergeTimeoutRaise)

\* The runs checked for termination: the poll does not depend on the
\* length of the list.
FairInit == Init /\ Len(technologies) <= MaxFairTechs

FairSpec == FairInit /\ [][Next]_vars /\ MergeFairness

\* A call of invoke is run to its end: the event loop and the thread go on
\* executing it, and every collaborator call returns or raises.
InvokeStep == mode = "invoke" /\ Next
InvokeFairSpec == FairInit /\ [][Next]_vars /\ WF_vars(InvokeStep)

----------------------------------------------------------------------------
\* Properties

BothWritten == ~IsNone(shared.outline) /\ ~IsNone(shared.research_results)

\* C1: MergeResultsNode's input-read returns data only in a state where
\* shared["outline"] and shared["research_results"] are both non-null; while
\* either is null Merge is still polling, reporting the timeout or has
\* failed, and it has returned nothing.
C1_MergeReturnsOnlyWhenBothWritten ==
    /\ ~IsNone(prep_res["merge"]) =>
          /\ BothWritten
          /\ Get(prep_res["merge"]).outline = shared.outline
          /\ Get(prep_res["merge"]).research = shared.research_results
    /\ ~BothWritten =>
          /\ IsNone(prep_res["merge"])
          /\ nst["merge"] \in {"idle", "prep", "poll", "timeout", "sleep_prep",
                              "failed"}

\* Merge returned its data after it had found a key missing and slept.
C1_Witness ==
    /\ nst["merge"] = "exec" /\ ~IsNone(prep_res["merge"])
    /\ wait_time > 0

\* C2: a final document exists only when outline and research results both
\* exist, and WriteDocumentNode is never run (its input-read never executes)
\* while either key is null.
C2_WriteOnlyWithBothResults ==
    /\ ~IsNone(shared.final_document) => BothWritten
    /\ nst["write"] # "idle" => BothWritten
    /\ ~IsNone(prep_res["write"]) =>
          /\ ~IsNone(Get(prep_res["write"]).outline)
          /\ ~IsNone(Get(prep_res["write"]).research)

\* invoke wrote a final document.
C2_Witness ==
    /\ mode = "invoke" /\ nst["write"] = "done"
    /\ ~IsNone(shared.final_document)

\* the max_retries each driver configures for node n
ConfiguredRetries(n) ==
    CASE mode = "invoke" -> DefaultMaxRetries[n]
      [] mode = "runpf"  -> RunpfRetries[n]
      [] OTHER           -> FlowRetries[n]

\* C3: a node whose compute fails on every attempt has its compute invoked
\* exactly max_retries times (3 times for Write), with one sleep between two
\* consecutive attempts, and then fails with a StepExecutionError naming it;
\* compute is never invoked more than max_retries times.
C3_RetryBound ==
    \A n \in {"prepare", "outline", "write"} :
        /\ execCalls[n] <= ConfiguredRetries(n)
        /\ nst[n] = "exec" => sleeps[n] = execCalls[n]
        /\ nst[n] = "sleep_exec" => sleeps[n] = execCalls[n] - 1
        /\ (nst[n] = "failed" /\ execCalls[n] > 0) =>
              /\ execCalls[n] = ConfiguredRetries(n)
              /\ sleeps[n] = ConfiguredRetries(n) - 1
              /\ ~IsNone(nodeErr[n])
              /\ Get(nodeErr[n]).type = "StepExecutionError"
              /\ Get(nodeErr[n]).node = n

\* Write (max_retries = 3) failed after three computes and two sleeps.
C3_Witness ==
    /\ mode = "invoke" /\ nst["write"] = "failed"
    /\ execCalls["write"] = 3 /\ sleeps["write"] = 2

MergeTimedOut ==
    /\ nst["merge"] = "failed"
    /\ ~IsNone(nodeErr["merge"]) /\ Get(nodeErr["merge"]).cause = "TimeoutError"

\* C4: when Merge's poll deadline elapses, the timeout error names every key
\* that is still missing and no key that the poll had found ready; with only
\* the outline populated it names the research results and nothing else.
C4_TimeoutNamesMissing ==
    MergeTimedOut =>
        /\ IsNone(shared.outline) => "outline" \in ToSet(missing)
        /\ IsNone(shared.research_results) => "research results" \in ToSet(missing)
        /\ outline_ready => "outline" \notin ToSet(missing)
        /\ research_ready => "research results" \notin ToSet(missing)
        /\ (outline_ready /\ IsNone(shared.research_results)) =>
               missing = <<"research results">>

\* Merge timed out with only the outline populated.
C4_Witness ==
    /\ MergeTimedOut
    /\ outline_ready /\ ~IsNone(shared.outline)
    /\ IsNone(shared.research_results)
    /\ missing = <<"research results">>

Distinct(ts) == Cardinality(ToSet(ts)) = Len(ts)

OutlineStep == nst'["outline"] # nst["outline"]
ResearchStep == nst'["research"] # nst["research"] \/ items' # items

\* C6: the Outline branch writes only outline and outline_complete, the
\* Research branch writes only research_results and research_complete; a
\* written outline or research_results is never overwritten, and when both
\* branches have completed both keys hold the result of their own branch.
C6_DisjointWrites ==
    /\ [][/\ OutlineStep =>
                /\ shared'.research_results = shared.research_results
                /\ shared'.research_complete = shared.research_complete
                /\ shared'.technologies = shared.technologies
                /\ shared'.final_document = shared.final_document
          /\ ResearchStep =>
                /\ shared'.outline = shared.outline
                /\ shared'.outline_complete = shared.outline_complete
                /\ shared'.technologies = shared.technologies
                /\ shared'.final_document = shared.final_document
          /\ ~IsNone(shared.outline) => shared'.outline = shared.outline
          /\ ~IsNone(shared.research_results) =>
                shared'.research_results = shared.research_results
          /\ (nst'["outline"] = "done" /\ nst'["research"] = "done") =>
                /\ shared'.outline = exec_res'["outline"]
                /\ ~IsNone(shared'.research_results)
                /\ \A i \in 1..Len(items') :
                      Get(shared'.research_results)[items'[i].technology].about
                          = items'[i].technology
                /\ shared'.outline_complete /\ shared'.research_complete
         ]_vars

\* Both branches ran side by side and each has written its own key.
C6_Witness ==
    /\ mode = "flow"
    /\ nst["outline"] = "post_flag" /\ nst["research"] = "post_flag"
    /\ BothWritten

\* C7: whenever invoke returns, the document has at least 100 characters and
\* contains a heading marker.
C7_ReturnedDocumentIsValid ==
    (mode = "invoke" /\ pc = "returned") =>
        /\ ~IsNone(result)
        /\ Get(result).len >= 100
        /\ Get(result).heading

\* the phases of the pipeline that come after the phase of node n
LaterNodes(n) ==
    CASE n = "prepare" -> {"outline", "research", "merge", "write"}
      [] n \in {"outline", "research"} -> {"merge", "write"}
      [] n = "merge" -> {"write"}
      [] OTHER -> {}

\* C8: once a node has failed terminally in a run of invoke, no later phase
\* is started, final_document is never written and invoke does not return:
\* it raises one FlowExecutionError naming a failed phase; a document is
\* returned only when all five nodes completed.
C8_FailureAbortsRun ==
    mode = "invoke" =>
        /\ \A n \in Nodes : nst[n] = "failed" =>
              /\ \A m \in LaterNodes(n) : nst[m] = "idle"
              /\ IsNone(shared.final_document)
              /\ IsNone(result)
              /\ pc # "returned"
              /\ pc = "raised" =>
                    /\ Get(error).type = "FlowExecutionError"
                    /\ nst[Get(error).phase] = "failed"
        /\ pc = "returned" =>
              /\ \A n \in Nodes : nst[n] = "done"
              /\ result = shared.final_document

\* invoke raised after Write had used up its attempts.
C8_Witness ==
    /\ mode = "invoke" /\ pc = "raised"
    /\ nst["write"] = "failed"
    /\ Get(error).phase = "write"

\* C9: in a run of invoke or of run_parallel_flow, Outline and Research
\* start only after Prepare's output-write, Merge starts only after Prepare,
\* Outline and Research completed, and Write starts only after Merge
\* returned successfully.
C9_PhaseOrder ==
    mode \in {"invoke", "runpf"} =>
        /\ nst["outline"] # "idle" => nst["prepare"] = "done"
        /\ nst["research"] # "idle" => nst["prepare"] = "done"
        /\ nst["merge"] # "idle" =>
              /\ nst["prepare"] = "done"
              /\ nst["outline"] = "done" /\ nst["research"] = "done"
        /\ nst["write"] # "idle" => nst["merge"] = "done"
        /\ nst["prepare"] = "done" => shared.technologies = Get(exec_res["prepare"])

\* invoke ran all four phases.
C9_Witness ==
    /\ mode = "invoke"
    /\ nst["write"] = "done" /\ nst["merge"] = "done"
    /\ nst["outline"] = "done" /\ nst["research"] = "done"

\* C10: in the parallel phase of invoke Outline and Research run
\* concurrently, neither waits for the other: while the Outline branch is
\* running the Research branch has been started too, so that a research call
\* can finish before Outline writes shared["outline"].
C10_BranchesRunConcurrently ==
    (mode = "invoke" /\ otask = "running") => rtask \in {"running", "done", "failed"}

\* What the code does instead: in invoke no research call has even begun
\* before the Outline node has returned or raised.
C10_OutlineRunsFirst ==
    (mode = "invoke" /\ nst["research"] # "idle") =>
        nst["outline"] \in {"done", "failed"}


\* the technology list the store holds before Prepare's output-write
InitialTechnologies ==
    IF mode = "invoke" THEN StripAll(technologies) ELSE technologies

\* C11: for every node the output-write runs once, after the attempt that
\* succeeded and with that attempt's result, and never for an attempt that
\* failed; a node that failed terminally has run no output-write and its
\* keys of the shared store are as they were; the store changes only in an
\* output-write (or when invoke creates it).
C11_NoPostOnFailedAttempts ==
    /\ [](\A n \in Nodes :
            /\ postCalls[n] <= 1
            /\ nst[n] \in {"idle", "prep", "poll", "timeout", "exec",
                           "sleep_prep", "sleep_exec", "failed"}
                  => postCalls[n] = 0
            /\ nst[n] \in {"post_flag", "done"}
                  => postCalls[n] = 1 /\ ~IsNone(exec_res[n])
            /\ postCalls[n] = 1 => execCalls[n] >= 1)
    /\ [](/\ nst["prepare"] = "done" => shared.technologies = Get(exec_res["prepare"])
          /\ nst["outline"] \in {"post_flag", "done"} =>
                shared.outline = exec_res["outline"]
          /\ nst["write"] = "done" => shared.final_document = exec_res["write"]
          /\ nst["prepare"] = "failed" => shared.technologies = InitialTechnologies
          /\ nst["outline"] = "failed" =>
                IsNone(shared.outline) /\ ~shared.outline_complete
          /\ nst["research"] = "failed" =>
                IsNone(shared.research_results) /\ ~shared.research_complete
          /\ nst["write"] = "failed" => IsNone(shared.final_document))
    /\ [][(/\ postCalls' = postCalls
           /\ \A n \in Nodes : nst[n] # "post_flag"
           /\ pc # "create_store") => shared' = shared]_vars

\* Write failed its first attempt, succeeded on the second and wrote once.
C11_Witness ==
    /\ mode = "invoke" /\ nst["write"] = "done"
    /\ execCalls["write"] = 2 /\ sleeps["write"] = 1
    /\ postCalls["write"] = 1
    /\ shared.final_document = exec_res["write"]


\* a list invoke must refuse: empty, or with an element that is no string or
\* is blank, or with two elements that are the same name once trimmed
InvalidInput(ts) ==
    \/ ts = <<>>
    \/ \E i \in 1..Len(ts) : ts[i] = NotAString \/ strip(ts[i]) = <<>>
    \/ \E i, j \in 1..Len(ts) : i < j /\ strip(ts[i]) = strip(ts[j])

\* C12: for an empty list, a blank or non-string element or a list with
\* duplicates (the same name after trimming), invoke raises
\* InputValidationError at its first step, before the shared store is
\* created and before any node runs; the validation is done once; and invoke
\* raises InputValidationError for no other list.
C12_InvalidInputFailsImmediately ==
    /\ [](mode = "invoke" =>
            /\ InvalidInput(technologies) =>
                  /\ pc \in {"validate_inputs", "raised"}
                  /\ pc = "raised" => error = Err("InputValidationError", "input")
                  /\ shared = CreateSharedStore(<<>>)
                  /\ \A n \in Nodes : nst[n] = "idle" /\ execCalls[n] = 0
                  /\ otask = "none" /\ rtask = "none"
                  /\ IsNone(result)
            /\ (~IsNone(error) /\ Get(error).type = "InputValidationError")
                  => InvalidInput(technologies))
    /\ [][(mode = "invoke" /\ pc = "validate_inputs" /\ InvalidInput(technologies))
             => pc' = "raised"]_vars

\* invoke refused a list whose two elements are the same name once trimmed.
C12_Witness ==
    /\ mode = "invoke" /\ pc = "raised"
    /\ technologies = << <<"r">>, <<" ", "r">> >>
    /\ error = Err("InputValidationError", "input")


\* C13: for a raw list that is non-empty and holds only non-blank strings,
\* Prepare returns the trimmed names with duplicates removed
\* case-insensitively (first occurrence kept, order preserved), and it fails
\* for an empty list or any blank element.
C13_PrepareNormalizes ==
    /\ ~IsNone(exec_res["prepare"]) =>
          /\ ~ValidateTechnologiesRaises(Get(prep_res["prepare"]))
          /\ Get(exec_res["prepare"]) = ValidateTechnologies(Get(prep_res["prepare"]))
    /\ (nst["prepare"] = "failed" /\ ~IsNone(prep_res["prepare"])) =>
          ValidateTechnologiesRaises(Get(prep_res["prepare"]))


\* an already-cleaned list: non-empty, every name a trimmed non-blank
\* string, no two names equal up to case
Cleaned(ts) ==
    /\ Len(ts) > 0
    /\ \A i \in 1..Len(ts) :
          IsString(ts[i]) /\ strip(ts[i]) = ts[i] /\ Len(ts[i]) > 0
    /\ \A i, j \in 1..Len(ts) : i < j => Lower(ts[i]) # Lower(ts[j])

\* C14: Prepare applied to an already-cleaned list returns that list
\* unchanged (so do the packaged Prepare and validate_technologies), and
\* once Prepare has run on a store, running it again on that store does not
\* fail and leaves shared["technologies"], and the rest of the store, as the
\* first run left it.
C14_PrepareIdempotent ==
    /\ Cleaned(technologies) =>
          /\ ~PrepareExecRaises(technologies)
          /\ PrepareExecResult(technologies) = technologies
          /\ ~PackagedPrepareExecRaises(technologies)
          /\ PackagedPrepareExecResult(technologies) = technologies
          /\ ~ValidateTechnologiesRaises(technologies)
          /\ ValidateTechnologies(technologies) = technologies
    /\ nst["prepare"] = "done" =>
          /\ ~PrepareExecRaises(shared.technologies)
          /\ PreparePostStore(shared, PrepareExecResult(shared.technologies))
                = shared
          /\ Cleaned(shared.technologies) =>
                shared.technologies = Get(prep_res["prepare"])

\* Prepare has run on a store holding a cleaned list of two names.
C14_Witness ==
    /\ nst["prepare"] = "done" /\ postCalls["prepare"] = 1
    /\ Cleaned(shared.technologies) /\ Len(shared.technologies) = 2


\* the information-retrieval call of item i failed (every request of it
\* raised; no later attempt is made for it)
RetrievalFailed(i) ==
    /\ items[i].st = "done"
    /\ Get(items[i].res).research.kind = "error"

\* C15: if the information-retrieval call of a research item fails on every
\* attempt, the Research batch fails: research_results is not written,
\* Research does not complete, and the failed item is not recorded as a
\* finding.
C15_BatchFailureNotSilent ==
    (\E i \in 1..Len(items) : RetrievalFailed(i)) =>
        /\ IsNone(shared.research_results)
        /\ ~shared.research_complete
        /\ nst["research"] \notin {"post_flag", "done"}


\* a producing node has written its result key and not yet its flag
PartialOutline == ~IsNone(shared.outline) /\ ~shared.outline_complete
PartialResearch == ~IsNone(shared.research_results) /\ ~shared.research_complete

\* a step in which a node or a driver reads the shared store
StoreRead ==
    \/ prep_res' # prep_res
    \/ wait_time' # wait_time
    \/ missing' # missing
    \/ nst["merge"] \in {"poll", "timeout"} /\ nst'["merge"] # nst["merge"]
    \/ result' # result

C17_FlowRunsDocumentedStructure ==
    mode = "flow" =>
        /\ nst["merge"] # "idle" =>
              nst["outline"] # "idle" /\ nst["research"] # "idle"
        /\ MergeTimedOut =>
              nst["outline"] = "failed" \/ nst["research"] = "failed"
        /\ (pc = "raised" /\ \A n \in Nodes : sleeps[n] = 0) =>
              Get(error).phase # "merge"
        /\ pc = "returned" => ~IsNone(shared.final_document)


\* the next step of the Research branch
ResearchBranchStep ==
    \/ ResearchPrep
    \/ \E i \in 1..Len(items) : ItemDone(i)
    \/ ResearchPost
    \/ ResearchPostDone
    \/ ResearchTaskEnd

\* C18: when the Outline branch has failed terminally and the run was
\* reported as failed, the Research branch is not cancelled: its task has
\* been started, it stays able to take its next step until it ends, and once
\* its calls have finished it writes shared["research_results"] although the
\* run is over.
C18_SiblingNotCancelled ==
    (mode \in {"invoke", "runpf"} /\ pc = "raised" /\ otask = "failed") =>
        /\ rtask \in {"running", "done"}
        /\ rtask = "running" => ENABLED ResearchBranchStep
        /\ (/\ nst["research"] = "exec"
            /\ \A i \in 1..Len(items) : items[i].st = "done")
              => ENABLED ResearchPost
        /\ nst["research"] = "done" => ~IsNone(shared.research_results)

\* invoke has raised for the failed Outline; the orphaned Research branch
\* has finished its calls and is about to write its results.
C18_Witness ==
    /\ mode = "invoke" /\ pc = "raised" /\ otask = "failed"
    /\ Get(error).phase = "outline"
    /\ rtask = "running" /\ nst["research"] = "exec"
    /\ Len(items) = 2 /\ \A i \in 1..Len(items) : items[i].st = "done"
    /\ IsNone(shared.research_results)


\* Merge's input-read is under way
MergePolling == nst["merge"] \in {"poll", "timeout"}

\* C19: Merge's poll is bounded: the elapsed time never exceeds max_wait
\* (240 check intervals of half a second), every check that finds a key
\* missing is followed by one sleep of the fixed interval, at most 240
\* checks are made, and the poll always ends, by returning the data or by
\* raising the timeout error.
C19_MergePollBounded ==
    /\ [](/\ wait_time <= max_wait * ChecksPerSecond
          /\ max_wait * ChecksPerSecond = 240
          /\ (nst["merge"] = "timeout") => wait_time = 240)
    /\ [][nst["merge"] = "poll" =>
             /\ wait_time' \in {wait_time, wait_time + 1}
             /\ wait_time' # wait_time =>
                   nst'["merge"] = "poll" /\ ~BothWritten]_vars
    /\ [][(nst["merge"] = "poll" /\ nst'["merge"] # "poll") =>
             \/ nst'["merge"] = "exec" /\ ~IsNone(prep_res'["merge"])
             \/ nst'["merge"] = "timeout" /\ wait_time = 240]_vars
    /\ (MergePolling ~> ~MergePolling)

\* Merge has made its 240 checks and is reporting the timeout.
C19_Witness ==
    /\ nst["merge"] = "timeout" /\ wait_time = 240


\* C20: for a generator built with GeneratorConfig(timeout_seconds = T),
\* Merge's poll goes on exactly while less than T seconds have elapsed and
\* raises its timeout error at T.
C20_MergeDeadlineIsConfigured ==
    mode = "invoke" =>
        /\ nst["merge"] = "poll" =>
              \A w \in 0..(timeout_seconds * ChecksPerSecond) :
                  MergePollContinues(w) <=> w < timeout_seconds * ChecksPerSecond
        /\ nst["merge"] = "timeout" =>
              wait_time = timeout_seconds * ChecksPerSecond


\* the node's run has failed in its input-read
FailedInPrep(n) ==
    /\ nst[n] = "failed" /\ ~IsNone(nodeErr[n])
    /\ Get(nodeErr[n]).cause \in {"KeyError", "TimeoutError"}

\* C21: a failure raised in a node's input-read is handled as a compute
\* failure is: while attempts are left the node sleeps `wait` and runs its
\* input-read again, and the failure becomes terminal exactly when
\* max_retries attempts were made, with max_retries - 1 sleeps between them.
C21_PrepFailureIsRetried ==
    /\ [](\A n \in Nodes :
            /\ cur_retry[n] < max_retries(n)
            /\ sleeps[n] = cur_retry[n]
            /\ nst[n] \in {"sleep_prep", "sleep_exec"} =>
                  cur_retry[n] + 1 < max_retries(n)
            /\ nst[n] = "failed" =>
                  /\ cur_retry[n] + 1 = max_retries(n)
                  /\ sleeps[n] = max_retries(n) - 1
                  /\ Get(nodeErr[n]).type = "StepExecutionError"
                  /\ Get(nodeErr[n]).node = n
            /\ FailedInPrep(n) => IsNone(exec_res[n]) /\ postCalls[n] = 0)
    /\ []((mode = "flow" /\ FailedInPrep("prepare")) =>
            cur_retry["prepare"] = 1 /\ sleeps["prepare"] = 1)
    /\ [][\A n \in Nodes :
            /\ (nst[n] = "sleep_prep" /\ nst'[n] # nst[n]) =>
                  nst'[n] = "prep" /\ cur_retry'[n] = cur_retry[n] + 1
            /\ (nst[n] = "sleep_exec" /\ nst'[n] # nst[n]) =>
                  nst'[n] = "exec" /\ cur_retry'[n] = cur_retry[n] + 1
            /\ (nst[n] \in {"prep", "timeout"} /\ nst'[n] = "failed") =>
                  cur_retry[n] + 1 = max_retries(n)]_vars

\* Prepare of the flow (max_retries = 2) failed in its input-read, slept,
\* read again and failed terminally.
C21_Witness ==
    /\ mode = "flow" /\ FailedInPrep("prepare")
    /\ cur_retry["prepare"] = 1 /\ sleeps["prepare"] = 1
    /\ execCalls["prepare"] = 0


\* C22: Prepare is never retried: under every driver the Prepare node has
\* max_retries = 1, so its compute is invoked at most once per run, with no
\* sleep, even when it fails.
C22_PrepareNeverRetried ==
    /\ nst["prepare"] # "idle" => max_retries("prepare") = 1
    /\ execCalls["prepare"] <= 1
    /\ sleeps["prepare"] = 0
    /\ nst["prepare"] \notin {"sleep_prep", "sleep_exec"}


\* some requested technology has no entry in the research handed to Merge
ResearchMissingFor(data) ==
    \E i \in 1..Len(data.technologies) :
        data.technologies[i] \notin DOMAIN Get(data.research)

\* C23: when both keys are present, the outline has a title and
\* research_results is a non-empty mapping, Merge's compute succeeds and
\* returns its data, and the run continues to Write, even if some requested
\* technology has no entry in research_results; Merge fails only for a
\* missing outline or title or for missing or empty research results.
C23_MissingResearchIsWarning ==
    LET data == Get(prep_res["merge"])
        wellFormed == /\ ~IsNone(data.outline) /\ Get(data.outline).title
                      /\ ~IsNone(data.research)
                      /\ DOMAIN Get(data.research) # {}
    IN  /\ execCalls["merge"] > 0 =>
              /\ wellFormed => /\ nst["merge"] \in {"post", "done"}
                               /\ exec_res["merge"] = Some(data)
                               /\ pc \in {"merge", "write"}
              /\ ~wellFormed => /\ nst["merge"] = "failed"
                                /\ pc \in {"merge", "raised"}
        /\ pc = "write" => wellFormed /\ nst["merge"] = "done"

\* Merge succeeded and the run went on to Write although a requested
\* technology has no research.
C23_Witness ==
    /\ pc = "write" /\ nst["merge"] = "done"
    /\ ResearchMissingFor(Get(prep_res["merge"]))
    /\ Len(Get(prep_res["merge"]).technologies) = 2


\* C24: whenever Write's input-read executes, shared["outline"] has a title
\* and a non-empty list of sections.
C24_OutlineAtWriteIsValid ==
    ~IsNone(prep_res["write"]) =>
        /\ ~IsNone(shared.outline)
        /\ Get(shared.outline).title
        /\ Get(shared.outline).sections = "list"
        /\ Get(prep_res["write"]).outline = shared.outline


ItemNames == {items[i].technology : i \in 1..Len(items)}
AllItemsDone == \A i \in 1..Len(items) : items[i].st = "done"

\* C25: Research launches compute for every item of the technology list at
\* once, so that the calls overlap and finish in any order; an item's
\* compute is invoked for that item alone, never again because of another
\* item; the output-write happens only after every item's compute has
\* finished; shared["research_results"] goes from null directly to the
\* mapping that holds every item and never holds a strict subset.
C25_ResearchFanOutJoin ==
    /\ [](nst["research"] \in {"exec", "post_flag", "done"} =>
            /\ Len(items) = Len(Get(prep_res["research"]))
            /\ \A i \in 1..Len(items) :
                  /\ items[i].technology = Get(prep_res["research"])[i]
                  /\ items[i].st \in {"running", "done"}
                  /\ items[i].st = "done" =>
                        Get(items[i].res).technology = items[i].technology
            /\ execCalls["research"] = Len(done_order)
            /\ Cardinality(ToSet(done_order)) = Len(done_order)
            /\ \A i \in 1..Len(items) :
                  items[i].st = "done" <=> i \in ToSet(done_order))
    /\ [](~IsNone(shared.research_results) =>
            /\ AllItemsDone
            /\ postCalls["research"] = 1
            /\ DOMAIN Get(shared.research_results) = ItemNames)
    /\ [](postCalls["research"] > 0 => AllItemsDone)
    /\ [][shared'.research_results # shared.research_results =>
             /\ IsNone(shared.research_results)
             /\ AllItemsDone
             /\ ~IsNone(shared'.research_results)
             /\ DOMAIN Get(shared'.research_results) = ItemNames]_vars

\* Under invoke the second call has finished while the first is still
\* running, and nothing of the results is in the store yet.
C25_Witness ==
    /\ mode = "invoke" /\ nst["research"] = "exec"
    /\ Len(items) = 2
    /\ items[1].st = "running" /\ items[2].st = "done"
    /\ IsNone(shared.research_results)


\* C26: in the serial flow, when the Validate node returns a label other
\* than "valid" (as "invalid", or the empty label), the flow has no edge to
\* follow: it ends at once, none of Prepare, Outline, Research and Write is
\* run, nothing is raised and outline, research_results and final_document
\* stay null; a node is run only after Validate returned "valid".
C26_NoEdgeEndsFlowSilently ==
    /\ []((pc # "validate" /\ label \in {"invalid", ""}) =>
            /\ pc = "ended"
            /\ \A n \in SerialNodes : nst[n] = "idle" /\ execCalls[n] = 0
            /\ IsNone(error)
            /\ shared = CallerStore(technologies)
            /\ IsNone(shared.outline) /\ IsNone(shared.research_results)
            /\ IsNone(shared.final_document)
            /\ ~ENABLED SerialNext)
    /\ []((\E n \in SerialNodes : nst[n] # "idle") =>
            label \in {"valid", "default"})
    /\ [][(pc = "validate" /\ label' # "valid") => pc' = "ended"]_vars

\* Validate returned "invalid" for a list of two names and the flow ended.
C26_Witness ==
    /\ mode = "serial" /\ pc = "ended" /\ label = "invalid"
    /\ Len(technologies) = 2
    /\ \A n \in SerialNodes : nst[n] = "idle"


\* a step of node n's output-write phase: its post is called, or its post
\* goes on from its first store write to its second
OutputWriteStep(n) ==
    \/ postCalls'[n] = postCalls[n] + 1
    \/ nst[n] = "post_flag" /\ nst'[n] = "done"

\* a step of node n's input-read or compute phase, a failed attempt and the
\* sleep before a retry included
ReadOrComputeStep(n) ==
    /\ ~OutputWriteStep(n)
    /\ \/ nst[n] \in {"prep", "poll", "exec", "sleep_prep", "sleep_exec"}
          /\ nst'[n] # nst[n]
       \/ prep_res'[n] # prep_res[n]
       \/ execCalls'[n] # execCalls[n]
       \/ cur_retry'[n] # cur_retry[n]
       \/ n = "research" /\ items' # items
       \/ n = "merge" /\ wait_time' # wait_time /\ nst[n] = "poll"

StoreJustCreated ==
    mode = "invoke" /\ pc = "prepare" /\ nst["prepare"] = "idle"

\* C28: immediately after _create_shared_store the store holds the input
\* list with every name trimmed of surrounding whitespace (same length, same
\* order), outline, research_results and final_document are null, and
\* outline_complete and research_complete are false.
C28_InitialSchema ==
    /\ [](StoreJustCreated =>
            /\ Len(shared.technologies) = Len(technologies)
            /\ \A i \in 1..Len(technologies) :
                  shared.technologies[i] = strip(technologies[i])
            /\ IsNone(shared.outline)
            /\ IsNone(shared.research_results)
            /\ IsNone(shared.final_document)
            /\ shared.outline_complete = FALSE
            /\ shared.research_complete = FALSE)
    /\ [][pc = "create_store" => StoreJustCreated']_vars

\* The store was just created from a list with a padded name, which it
\* holds trimmed.
C28_Witness ==
    /\ StoreJustCreated
    /\ technologies = << <<" ", "r">>, <<"d">> >>
    /\ shared.technologies = << <<"r">>, <<"d">> >>


\* call c holds a store
HasStore(c) == calls[c].shared # 0

\* what the store of call c may hold, told from that call alone: its own
\* trimmed list, the outline its own Outline call replied, the research its
\* own research calls gave (each about one of its own names) and the
\* document its own Write call replied
OwnStore(c) ==
    LET s == StoreOf(c) IN
    /\ s.technologies = StripAll(calls[c].technologies)
    /\ s.outline = calls[c].oreply
    /\ s.outline_complete = ~IsNone(calls[c].oreply)
    /\ s.research_results = calls[c].research
    /\ s.research_complete = ~IsNone(calls[c].research)
    /\ ~IsNone(s.research_results) =>
          /\ DOMAIN Get(s.research_results) = ToSet(s.technologies)
          /\ \A name \in DOMAIN Get(s.research_results) :
                Get(s.research_results)[name].about = name
    /\ s.final_document = calls[c].wreply

\* what call c handed to its collaborators was made from its own list and
\* its own store
OwnPrompts(c) ==
    /\ ~IsNone(calls[c].outline_for) =>
          Get(calls[c].outline_for) = StripAll(calls[c].technologies)
    /\ calls[c].rtask # "none" =>
          calls[c].items = StripAll(calls[c].technologies)
    /\ ~IsNone(calls[c].prompt) =>
          Get(calls[c].prompt) =
             [outline |-> calls[c].oreply, research |-> calls[c].research,
              technologies |-> StripAll(calls[c].technologies)]

\* C29: two calls of invoke on the one generator of the agent executor, one
\* after the other or overlapping, never share a store; a step of one call
\* changes nothing in the store of the other; the store of a call holds
\* only what came from its own list and its own collaborator replies, and
\* the document a call returns is the one its own Write call replied. The
\* generator's node cache holds the configuration only.
C29_RunsAreIsolated ==
    /\ [](\A c, q \in Calls :
            (c # q /\ HasStore(c) /\ HasStore(q)) =>
               calls[c].shared # calls[q].shared)
    /\ [](\A c \in Calls : HasStore(c) => OwnStore(c) /\ OwnPrompts(c))
    /\ [](\A c \in Calls : calls[c].pc = "returned" =>
            /\ ~IsNone(calls[c].wreply)
            /\ calls[c].result = calls[c].wreply)
    /\ [](\A t \in DOMAIN agent_nodes :
            agent_nodes[t] = [max_retries |-> GetNodeRetries(t),
                              wait |-> GetNodeWait(t)])
    /\ [][\A c \in Calls :
            (HasStore(c) /\ calls'[c] = calls[c]) =>
               heap'[calls[c].shared] = heap[calls[c].shared]]_vars

\* The two calls overlap: both are suspended awaiting their research, each
\* store holds its own call's list and outline, and they differ.
C29_Witness ==
    /\ mode = "agent"
    /\ calls[1].pc = "awaiting" /\ calls[2].pc = "awaiting"
    /\ ~IsNone(StoreOf(1).outline) /\ ~IsNone(StoreOf(2).outline)
    /\ StoreOf(1).outline # StoreOf(2).outline
    /\ StoreOf(1).technologies = << <<"r">>, <<"R">> >>
    /\ StoreOf(2).technologies = << <<"d">> >>


\* the exception types invoke documents
ErrorSurface == {"InputValidationError", "FlowExecutionError",
                 "OutputValidationError"}

\* C30: whenever invoke fails, what it raises is an InputValidationError
\* (the input was refused and no node ran), a FlowExecutionError or an
\* OutputValidationError (every node completed and the document was
\* refused), and nothing else; a FlowExecutionError names the one node that
\* failed, which had used up its attempts and whose own failure carries its
\* name. A failed node is never passed over: invoke does not go on to
\* validate or return a document.
C30_ErrorSurface ==
    mode = "invoke" =>
        /\ pc = "raised" <=> ~IsNone(error)
        /\ pc = "raised" =>
              LET e == Get(error) IN
              /\ e.type \in ErrorSurface
              /\ e.type = "InputValidationError" =>
                    /\ ValidateInputsRaises(technologies)
                    /\ \A n \in Nodes : nst[n] = "idle"
              /\ e.type = "FlowExecutionError" =>
                    /\ e.phase \in Nodes
                    /\ nst[e.phase] = "failed"
                    /\ cur_retry[e.phase] + 1 = max_retries(e.phase)
                    /\ ~IsNone(nodeErr[e.phase])
                    /\ Get(nodeErr[e.phase]).node = e.phase
                    /\ \A n \in Nodes : nst[n] = "failed" => n = e.phase
              /\ e.type = "OutputValidationError" =>
                    /\ \A n \in Nodes : nst[n] = "done"
                    /\ ValidateOutputsRaises(shared)
        /\ \A n \in {"prepare", "merge", "write"} :
              nst[n] = "failed" => pc \in {n, "raised"}
        /\ (\E n \in Nodes : nst[n] = "failed") =>
              pc \notin {"validate_outputs", "returned"}

\* invoke raised FlowExecutionError naming Outline after Outline's second
\* and last attempt failed, while Research went on.
C30_Witness ==
    /\ mode = "invoke" /\ pc = "raised"
    /\ Get(error) = [type |-> "FlowExecutionError", phase |-> "outline"]
    /\ execCalls["outline"] = 2 /\ sleeps["outline"] = 1
    /\ nst["research"] = "done"


\* invoke has ended
InvokeEnded == pc \in {"returned", "raised"}

\* every node of the run has completed
AllNodesDone == \A n \in Nodes : nst[n] = "done"

\* the document Write stored is long enough for _validate_outputs
DocumentAccepted ==
    /\ ~IsNone(shared.final_document)
    /\ Get(shared.final_document).len >= 100

\* C31: a call of invoke that is run on always ends, by returning a
\* document or by raising; no node's compute is invoked more often than its
\* max_retries (once per item and attempt for Research) and Merge's poll
\* stays within its bound. When every node has completed and the document
\* is at least 100 characters long once trimmed, invoke returns that
\* document; when it raises, the input was refused, a node failed, or the
\* document was too short.
C31_InvokeTerminates ==
    /\ (mode = "invoke") ~> InvokeEnded
    /\ [](mode = "invoke" =>
            /\ \A n \in Nodes \ {"research"} : execCalls[n] <= max_retries(n)
            /\ execCalls["research"] <= Len(items) * max_retries("research")
            /\ wait_time <= max_wait * ChecksPerSecond)
    /\ (mode = "invoke" /\ AllNodesDone /\ DocumentAccepted)
          ~> (pc = "returned" /\ result = shared.final_document)
    /\ [](mode = "invoke" /\ pc = "raised" =>
            \/ ValidateInputsRaises(technologies)
            \/ \E n \in Nodes : nst[n] = "failed"
            \/ AllNodesDone /\ ~DocumentAccepted)

\* Write succeeded in its third and last attempt and invoke returned the
\* document.
C31_Witness ==
    /\ mode = "invoke" /\ pc = "returned"
    /\ execCalls["write"] = 3 /\ sleeps["write"] = 2
    /\ result = shared.final_document

\* C31 as stated: when every collaborator call succeeded (every node
\* completed), invoke does not raise.
C31_SuccessMeansDocument ==
    (mode = "invoke" /\ AllNodesDone) => pc # "raised"


\* C32: in a run of invoke the driver starts each node at most once: a node
\* that has been started is never put back to its start, an input-read
\* begins either at the node's single start (no compute made yet) or as the
\* engine's own retry, the count of computes is never reset, and so a
\* node's compute is invoked at most max_retries times in the run (at most
\* N times max_retries for Research over N items).
C32_DriverHoldsNoRetryLogic ==
    /\ [][mode = "invoke" =>
            \A n \in Nodes :
               /\ nst[n] # "idle" => nst'[n] # "idle"
               /\ (nst'[n] = "prep" /\ nst[n] # "prep") =>
                     \/ nst[n] = "idle" /\ execCalls[n] = 0 /\ cur_retry[n] = 0
                     \/ nst[n] = "sleep_prep"
               /\ execCalls'[n] >= execCalls[n]
               /\ cur_retry'[n] >= cur_retry[n]]_vars
    /\ [](mode = "invoke" =>
            /\ \A n \in Nodes : cur_retry[n] < max_retries(n)
            /\ \A n \in Nodes \ {"research"} : execCalls[n] <= max_retries(n)
            /\ execCalls["research"] <= Len(items) * max_retries("research"))

\* Research made one compute per item for two items, and Write then used
\* its three attempts and failed: invoke raised without starting it again.
C32_Witness ==
    /\ mode = "invoke" /\ pc = "raised"
    /\ Len(items) = 2 /\ execCalls["research"] = 2
    /\ nst["write"] = "failed" /\ execCalls["write"] = 3


\* C33: in a run of invoke Merge never waits: when its input-read begins,
\* outline and research_results are both written, so its first readiness
\* check succeeds; the elapsed time stays 0, no sleep is made, the timeout
\* report is never built and Merge never fails with the timeout error.
C33_MergeNeverWaitsInInvoke ==
    /\ [](mode = "invoke" =>
            /\ nst["merge"] # "idle" =>
                  /\ ~IsNone(shared.outline)
                  /\ ~IsNone(shared.research_results)
                  /\ otask = "done" /\ rtask = "done"
            /\ wait_time = 0
            /\ nst["merge"] \notin {"timeout", "sleep_prep"}
            /\ missing = <<>>
            /\ sleeps["merge"] = 0
            /\ ~IsNone(nodeErr["merge"]) =>
                  Get(nodeErr["merge"]).cause # "TimeoutError")
    /\ [][(mode = "invoke" /\ nst["merge"] = "poll") =>
             \/ nst'["merge"] = "exec"
                /\ prep_res'["merge"] = Some(MergeData(shared))
             \/ UNCHANGED <<nst, wait_time, prep_res>>]_vars

\* Merge's first check found both keys and handed them to compute.
C33_Witness ==
    /\ mode = "invoke" /\ nst["merge"] = "exec"
    /\ wait_time = 0 /\ outline_ready /\ research_ready
    /\ prep_res["merge"] = Some(MergeData(shared))


\* C34: whenever Merge fails with its timeout error, the list of keys the
\* error names is not empty and is the list of the keys that the last
\* readiness check of the poll found not ready.
C34_TimeoutReportAgreesWithPoll ==
    MergeTimedOut =>
        /\ missing # <<>>
        /\ "outline" \in ToSet(missing) <=> ~outline_ready
        /\ "research results" \in ToSet(missing) <=> ~research_ready


\* each completion flag tells whether its result key is written
FlagsAgree ==
    /\ shared.outline_complete <=> ~IsNone(shared.outline)
    /\ shared.research_complete <=> ~IsNone(shared.research_results)

\* the drivers that run every node on one event loop
OnEventLoop == mode \in {"invoke", "runpf"}

ResultKeys == {"outline", "research_results", "final_document"}

\* C36: in a run of invoke each of outline, research_results and
\* final_document is assigned at most once (the output-write of its
\* producing node is called at most once), and once non-null it keeps its
\* value, and so stays non-null, for the rest of the run.
C36_ResultKeysWriteOnce ==
    /\ [][mode = "invoke" =>
            \A k \in ResultKeys :
               ~IsNone(shared[k]) => shared'[k] = shared[k]]_vars
    /\ [](mode = "invoke" =>
            /\ \A n \in Nodes : postCalls[n] <= 1
            /\ ~IsNone(shared.outline) <=> postCalls["outline"] = 1
            /\ ~IsNone(shared.research_results) <=> postCalls["research"] = 1
            /\ ~IsNone(shared.final_document) <=> postCalls["write"] = 1)

\* invoke returned: the three keys were written once each and the store
\* still holds what the producing nodes computed.
C36_Witness ==
    /\ mode = "invoke" /\ pc = "returned"
    /\ postCalls["outline"] = 1 /\ postCalls["research"] = 1
    /\ postCalls["write"] = 1
    /\ shared.outline = exec_res["outline"]
    /\ shared.final_document = exec_res["write"]


\* Merge has read and validated its data and Write has not read yet
MergedNotYetRead ==
    /\ nst["merge"] \in {"post", "done"}
    /\ IsNone(prep_res["write"])

\* C37: from Merge's successful compute to Write's input-read no step
\* changes outline, research_results or technologies in the store, and what
\* Write's input-read returns is equal, key by key, to what Merge read and
\* validated.
C37_WriteReadsWhatMergeValidated ==
    /\ [][MergedNotYetRead =>
            /\ shared'.outline = shared.outline
            /\ shared'.research_results = shared.research_results
            /\ shared'.technologies = shared.technologies]_vars
    /\ [](MergedNotYetRead =>
            /\ ~IsNone(exec_res["merge"])
            /\ Get(exec_res["merge"]) = MergeData(shared))
    /\ [](~IsNone(prep_res["write"]) =>
            /\ ~IsNone(exec_res["merge"])
            /\ Get(prep_res["write"]).outline = Get(exec_res["merge"]).outline
            /\ Get(prep_res["write"]).research = Get(exec_res["merge"]).research
            /\ Get(prep_res["write"]).technologies =
                  Get(exec_res["merge"]).technologies)

\* In the flow Merge polled until both keys were there, and Write has read
\* a two-name list, the outline and the research that Merge validated.
C37_Witness ==
    /\ mode = "flow" /\ nst["write"] = "exec"
    /\ ~IsNone(prep_res["write"])
    /\ Len(Get(prep_res["write"]).technologies) = 2
    /\ Get(prep_res["write"]) = Get(exec_res["merge"])
    /\ ~IsNone(Get(prep_res["write"]).outline)


\* a step of the run of MergeResultsNode: of its input-read (the poll and
\* the timeout report), its compute, its output-write, or of the engine's
\* attempt handling for it
MergeStep ==
    \/ nst'["merge"] # nst["merge"]
    \/ nst["merge"] \in {"poll", "timeout"}
       /\ <<wait_time, outline_ready, research_ready, missing>>' #
             <<wait_time, outline_ready, research_ready, missing>>
    \/ prep_res'["merge"] # prep_res["merge"]
    \/ exec_res'["merge"] # exec_res["merge"]
    \/ execCalls'["merge"] # execCalls["merge"]
    \/ postCalls'["merge"] # postCalls["merge"]
    \/ cur_retry'["merge"] # cur_retry["merge"]
    \/ nodeErr'["merge"] # nodeErr["merge"]

\* C38: no step of a run of MergeResultsNode changes a key of the shared
\* store, whether the run returns, fails its validation or times out; what
\* the store holds when Merge has ended was written by the other nodes.
C38_MergeIsReadOnly ==
    /\ [][MergeStep => shared' = shared]_vars
    /\ [](nst["merge"] = "done" => postCalls["merge"] = 1)
    /\ []((nst["merge"] \in {"done", "failed"} /\ nst["write"] = "idle") =>
            IsNone(shared.final_document))

\* Merge's validation failed on an outline without a title, and the store
\* still holds that outline and the research beside it.
C38_Witness ==
    /\ nst["merge"] = "failed"
    /\ Get(nodeErr["merge"]).cause = "ValueError"
    /\ ~IsNone(shared.outline) /\ ~Get(shared.outline).title
    /\ ~IsNone(shared.research_results)
    /\ execCalls["merge"] = 1 /\ postCalls["merge"] = 0

====
